---------------------------- MODULE Spec2Model ----------------------------
(***************************************************************************)
(* A model of libtmux's option pipeline: TmuxArray, convert_value(s),      *)
(* parse_options_to_dict, explode_arrays, explode_complex and the typed    *)
(* option records.                                                         *)
(*                                                                         *)
(* Representation of Python values.                                        *)
(*   - A str is a sequence of symbols.  A symbol is one character, except  *)
(*     that a run of letters is written as one symbol ("terminal"); no     *)
(*     operation of the code looks inside a run of letters.  Every digit,  *)
(*     space, quote, backslash, newline and punctuation character is a     *)
(*     symbol of its own.                                                  *)
(*   - A value is a record [type, val]: PyStr(s), PyInt(n), PyBool(b), None,     *)
(*     and the containers PyDict(d), TmuxArrayOf(d), PyList(s).                *)
(*   - A dict is the sequence of its items [k, v] in insertion order, as   *)
(*     Python keeps them; keys are unique.                                 *)
(***************************************************************************)
EXTENDS Integers, Sequences, FiniteSets, TLC

VARIABLES
    array,      \* the TmuxArray under test (a dict of int -> value)
    op,         \* the last TmuxArray operation called, with its arguments
    raised,     \* the exception the last call raised, NoExc when it returned
    value,      \* the argument handed to convert_value / convert_values
    result,     \* what that call returned
    pc,         \* which call the driver made last
    stdout,     \* the text handed to parse_options_to_dict
    untyped,    \* the flat dict parse_options_to_dict returned
    force_array,\* the force_array argument of explode_arrays
    exploded,   \* the dict explode_arrays returned
    complex,    \* the dict explode_complex returned
    typed,      \* that dict after convert_values
    cls,        \* the record class constructed from it
    record,     \* the attributes of the constructed record
    call,       \* the operation called on the entity, with its arguments
    default_option_scope,   \* self.default_option_scope of the entity
    default_hook_scope,     \* self.default_hook_scope of the entity
    tmux_lt_3_2,\* what has_lt_version("3.2") answers
    cmd,        \* the commands handed to self.cmd, each with its arguments
    stderr,     \* the error stream of the command, a list of lines
    warned,     \* the warnings issued
    tmux_options,\* the options a storing self.cmd holds: what was sent for each
    heap,       \* the containers created so far, each an object with an identity
    runs        \* the calls that returned a result, each with its containers

pipeline == <<stdout, untyped, force_array, exploded, complex, typed, cls, record>>

command == <<call, default_option_scope, default_hook_scope, tmux_lt_3_2, cmd,
             stderr, warned, tmux_options, heap, runs>>

vars == <<array, op, raised, value, result, pc, pipeline, command>>

----------------------------------------------------------------------------
(* Bounds of the model.                                                    *)

MaxIndex == 3        \* TmuxArray indices are drawn from 0..MaxIndex
MaxStrLen == 3       \* strings handed to convert_value have at most this many symbols
MaxParseLines == 2   \* lines of a text handed to parse_options_to_dict alone
MaxArrayLines == 3   \* lines of a text handed on to explode_arrays
MaxComplexLines == 2 \* lines of a text handed on to explode_complex
MaxOptionLines == 2  \* lines of a text shown by show-options
MaxErrorPhrases == 3 \* phrases of an error line handed to handle_option_error
MaxSwitches == 2     \* switches passed as True in one call
MaxHookLines == 2    \* lines of a text shown by show-hooks
MaxRuns == 2         \* calls whose results are held at the same time

----------------------------------------------------------------------------
(* Python values.                                                          *)

NoExc == "NoExc"

PyStr(s) == [type |-> "str", val |-> s]
PyInt(n) == [type |-> "int", val |-> n]
PyBool(b) == [type |-> "bool", val |-> b]
None == [type |-> "None", val |-> <<>>]
PyDict(d) == [type |-> "dict", val |-> d]
TmuxArrayOf(d) == [type |-> "TmuxArray", val |-> d]
PyList(s) == [type |-> "list", val |-> s]

\* isinstance(v, str)
IsStr(v) == v.type = "str"
\* isinstance(v, dict): TmuxArray is a subclass of dict
IsDict(v) == v.type \in {"dict", "TmuxArray"}
\* isinstance(v, TmuxArray)
IsTmuxArray(v) == v.type = "TmuxArray"
\* isinstance(v, list)
IsList(v) == v.type = "list"

----------------------------------------------------------------------------
(* dict: items in insertion order.                                         *)

Range(s) == {s[i] : i \in DOMAIN s}

DictKeys(d) == {d[i].k : i \in DOMAIN d}

DictHas(d, key) == key \in DictKeys(d)

\* d[key], for a key that is present
DictGet(d, key) == d[CHOOSE i \in DOMAIN d : d[i].k = key].v

\* d[key] = val: an existing key keeps its place, a new key goes last
DictSet(d, key, val) ==
    IF DictHas(d, key)
    THEN [i \in DOMAIN d |-> IF d[i].k = key THEN [k |-> key, v |-> val] ELSE d[i]]
    ELSE Append(d, [k |-> key, v |-> val])

\* the dict as a mapping, without its insertion order
AsMap(d) == [key \in DictKeys(d) |-> DictGet(d, key)]

----------------------------------------------------------------------------
(* Builtins.                                                               *)

\* max(keys) of a non-empty set of integers
Max(S) == CHOOSE m \in S : \A x \in S : x <= m

Min(S) == CHOOSE m \in S : \A x \in S : m <= x

\* sorted(keys): ascending, built by repeatedly taking the minimum
RECURSIVE sorted(_)
sorted(S) == IF S = {} THEN <<>> ELSE <<Min(S)>> \o sorted(S \ {Min(S)})

----------------------------------------------------------------------------
(* class TmuxArray(t.Dict[int, T])                                         *)

\* self[index] = value (dict.__setitem__, inherited)
SetItem(self, index, val) == DictSet(self, index, val)

\* TmuxArray.add
add(self, index, val) == SetItem(self, index, val)

\* TmuxArray.append: max() of no keys raises ValueError
append(self, val) ==
    IF DictKeys(self) = {}
    THEN [raised |-> "ValueError", self |-> self]
    ELSE [raised |-> NoExc, self |-> SetItem(self, Max(DictKeys(self)) + 1, val)]

\* the order in which the entries are visited when the keys are not sorted
as_list_unsorted(self) == [i \in DOMAIN self |-> self[i].v]

\* TmuxArray.as_list
as_list(self) ==
    LET keys == sorted(DictKeys(self))
    IN  [i \in DOMAIN keys |-> DictGet(self, keys[i])]

\* TmuxArray.iter_values, as the sequence of the values it yields
iter_values(self) ==
    LET keys == sorted(DictKeys(self))
    IN  [i \in DOMAIN keys |-> DictGet(self, keys[i])]

----------------------------------------------------------------------------
(* The TmuxArray state machine: an array built by add, item assignment     *)
(* and append, in any order.                                               *)

\* an entity on which no operation is called
CommandIdle ==
    /\ call = [op |-> "none"]
    /\ default_option_scope = "None"
    /\ default_hook_scope = "None"
    /\ tmux_lt_3_2 = FALSE
    /\ cmd = <<>>
    /\ stderr = <<>>
    /\ warned = {}
    /\ tmux_options = <<>>
    /\ heap = <<>>
    /\ runs = <<>>

\* the pipeline before any text is handed to it
PipelineIdle ==
    /\ stdout = <<>>
    /\ untyped = <<>>
    /\ force_array = FALSE
    /\ exploded = <<>>
    /\ complex = <<>>
    /\ typed = <<>>
    /\ cls = "none"
    /\ record = <<>>

Indices == 0..MaxIndex

ArrayValues == {PyStr(<<"a">>), PyStr(<<"b">>)}

IdleOp == [name |-> "init", index |-> 0, val |-> None]

InitArray ==
    /\ array = <<>>
    /\ op = IdleOp
    /\ raised = NoExc
    /\ value = None
    /\ result = None
    /\ pc = "array"
    /\ PipelineIdle
    /\ CommandIdle

Add(index, val) ==
    /\ pc = "array"
    /\ array' = add(array, index, val)
    /\ op' = [name |-> "add", index |-> index, val |-> val]
    /\ raised' = NoExc
    /\ UNCHANGED command
    /\ UNCHANGED <<value, result, pc, pipeline>>

SetItemCall(index, val) ==
    /\ pc = "array"
    /\ array' = SetItem(array, index, val)
    /\ op' = [name |-> "setitem", index |-> index, val |-> val]
    /\ raised' = NoExc
    /\ UNCHANGED command
    /\ UNCHANGED <<value, result, pc, pipeline>>

AppendCall(val) ==
    /\ pc = "array"
    /\ DictKeys(array) # {} => Max(DictKeys(array)) < MaxIndex
    /\ array' = append(array, val).self
    /\ op' = [name |-> "append", index |-> 0, val |-> val]
    /\ raised' = append(array, val).raised
    /\ UNCHANGED command
    /\ UNCHANGED <<value, result, pc, pipeline>>

NextArray ==
    \/ \E index \in Indices, val \in ArrayValues : Add(index, val)
    \/ \E index \in Indices, val \in ArrayValues : SetItemCall(index, val)
    \/ \E val \in ArrayValues : AppendCall(val)

SpecArray == InitArray /\ [][NextArray]_vars

----------------------------------------------------------------------------
(* Claims about TmuxArray.                                                 *)

\* the index of rank r (1 = smallest) among the keys of the array
KeyOfRank(self, r) ==
    CHOOSE key \in DictKeys(self) :
        Cardinality({j \in DictKeys(self) : j <= key}) = r

\* C4: whatever the order in which the pairs (i, v) were assigned, as_list()
\* has one value per index, in ascending order of index, and iter_values()
\* yields the same sequence.
C4_AsListAscending ==
    /\ Len(as_list(array)) = Cardinality(DictKeys(array))
    /\ \A r \in 1..Len(as_list(array)) :
           as_list(array)[r] = DictGet(array, KeyOfRank(array, r))
    /\ iter_values(array) = as_list(array)

\* an array whose indices were assigned out of order and with a gap
C4_Witness ==
    /\ Len(array) >= 3
    /\ array[1].k > array[2].k
    /\ \E i \in Indices : i \notin DictKeys(array) /\ i < Max(DictKeys(array))
    /\ as_list(array)[1] # as_list(array)[2]

\* C5: append(v) stores v at max+1 (at 0 when the array is empty), never
\* raises, and leaves the existing entries unchanged.
C5_Append ==
    [][op'.name = "append" =>
          /\ raised' = NoExc
          /\ DictKeys(array') =
                 DictKeys(array) \cup
                     {IF DictKeys(array) = {} THEN 0 ELSE Max(DictKeys(array)) + 1}
          /\ \A key \in DictKeys(array) : DictGet(array', key) = DictGet(array, key)
          /\ DictGet(array',
                 IF DictKeys(array) = {} THEN 0 ELSE Max(DictKeys(array)) + 1) = op'.val
      ]_vars

----------------------------------------------------------------------------
(* str builtins used by the coercion.                                      *)

\* the ASCII decimal digits
Digits == {"0", "1", "2", "3", "4", "5", "6", "7", "8", "9"}

DigitValue(c) ==
    CASE c = "0" -> 0 [] c = "1" -> 1 [] c = "2" -> 2 [] c = "3" -> 3
      [] c = "4" -> 4 [] c = "5" -> 5 [] c = "6" -> 6 [] c = "7" -> 7
      [] c = "8" -> 8 [] c = "9" -> 9

\* str.isdigit(): at least one character, every character a digit; "²"
\* stands for the characters str.isdigit() accepts and int() rejects (the
\* superscripts and the other characters of Unicode type Digit that are
\* not decimal digits)
isdigit(s) == s # <<>> /\ \A i \in DOMAIN s : s[i] \in Digits \cup {"²"}

RECURSIVE DecimalValue(_)
DecimalValue(s) ==
    IF s = <<>> THEN 0
    ELSE 10 * DecimalValue(SubSeq(s, 1, Len(s) - 1)) + DigitValue(s[Len(s)])

\* int(s) for a str: ValueError unless s is made of decimal digits
int(s) ==
    IF s # <<>> /\ \A i \in DOMAIN s : s[i] \in Digits
    THEN [raised |-> NoExc, ret |-> PyInt(DecimalValue(s))]
    ELSE [raised |-> "ValueError", ret |-> None]

----------------------------------------------------------------------------
(* convert_value and convert_values                                        *)

convert_value(v) ==
    IF ~IsStr(v) THEN [raised |-> NoExc, ret |-> v]
    ELSE IF isdigit(v.val) THEN int(v.val)
    ELSE IF v.val = <<"on">> THEN [raised |-> NoExc, ret |-> PyBool(TRUE)]
    ELSE IF v.val = <<"off">> THEN [raised |-> NoExc, ret |-> PyBool(FALSE)]
    ELSE [raised |-> NoExc, ret |-> v]

\* for k, v in value.items(): value[k] = convert_value(v)
\* d is the dict so far, i the next item; an exception leaves the loop
RECURSIVE ConvertDictItems(_, _)
ConvertDictItems(d, i) ==
    IF i > Len(d) THEN [raised |-> NoExc, self |-> d]
    ELSE LET c == convert_value(d[i].v)
         IN  IF c.raised # NoExc THEN [raised |-> c.raised, self |-> d]
             ELSE ConvertDictItems(DictSet(d, d[i].k, c.ret), i + 1)

\* for v in value: value[v] = convert_value(v)
\* the element itself is used as the list index: a str, None or container
\* index is a TypeError, an int (or bool) out of range an IndexError
RECURSIVE ConvertListItems(_, _)
ConvertListItems(l, i) ==
    IF i > Len(l) THEN [raised |-> NoExc, self |-> l]
    ELSE LET v == l[i]
             c == convert_value(v)
             n == IF v.type = "bool" THEN (IF v.val THEN 1 ELSE 0) ELSE v.val
             at == IF n < 0 THEN Len(l) + n + 1 ELSE n + 1
         IN  IF c.raised # NoExc THEN [raised |-> c.raised, self |-> l]
             ELSE IF v.type \notin {"int", "bool"}
                  THEN [raised |-> "TypeError", self |-> l]
             ELSE IF at \notin DOMAIN l
                  THEN [raised |-> "IndexError", self |-> l]
             ELSE ConvertListItems([l EXCEPT ![at] = c.ret], i + 1)

\* ret is the value returned, arg the argument object after the call
\* (a dict, TmuxArray or list is changed in place and returned itself)
convert_values(v) ==
    IF v = None THEN [raised |-> NoExc, ret |-> None, arg |-> v]
    ELSE IF IsDict(v)
         THEN LET r == ConvertDictItems(v.val, 1)
                  after == [type |-> v.type, val |-> r.self]
              IN  [raised |-> r.raised,
                   ret |-> IF r.raised = NoExc THEN after ELSE None,
                   arg |-> after]
    ELSE IF IsList(v)
         THEN LET r == ConvertListItems(v.val, 1)
                  after == [type |-> v.type, val |-> r.self]
              IN  [raised |-> r.raised,
                   ret |-> IF r.raised = NoExc THEN after ELSE None,
                   arg |-> after]
    ELSE LET c == convert_value(v)
         IN  [raised |-> c.raised, ret |-> c.ret, arg |-> v]

----------------------------------------------------------------------------
(* The coercion state machine: one value is drawn and handed to            *)
(* convert_value or to convert_values.                                     *)

RECURSIVE StringsUpTo(_, _)
StringsUpTo(symbols, n) ==
    IF n = 0 THEN {<<>>}
    ELSE LET shorter == StringsUpTo(symbols, n - 1)
         IN  shorter \cup {Append(s, c) : s \in shorter, c \in symbols}

ScalarInputs ==
    {PyStr(s) : s \in StringsUpTo({"on", "off", "x", "0", "5", "%", "²"}, MaxStrLen)}
        \cup {PyInt(0), PyInt(1), PyInt(50), PyBool(TRUE), PyBool(FALSE), None}

Leaves ==
    {PyStr(<<"on">>), PyStr(<<"off">>), PyStr(<<"5", "0">>), PyStr(<<"%", "5", "0">>),
     None, PyInt(0), PyInt(5)}

\* the dicts with at most two of the given keys, in either order
DictsOver(keys, vals) ==
    {<<>>}
        \cup {<<[k |-> key, v |-> val]>> : key \in keys, val \in vals}
        \cup UNION {{<<[k |-> k1, v |-> v1], [k |-> k2, v |-> v2]>> :
                         k2 \in keys \ {k1}, v1 \in vals, v2 \in vals} : k1 \in keys}

ContainerInputs ==
    {PyDict(d) : d \in DictsOver({<<"status">>, <<"mouse">>}, Leaves)}
        \cup {TmuxArrayOf(d) : d \in DictsOver({0, 5}, Leaves)}
        \cup {PyList(l) : l \in ({<<>>} \cup {<<a>> : a \in Leaves}
                                   \cup {<<a, b>> : a \in Leaves, b \in Leaves})}
        \cup {PyDict(<<[k |-> <<"user", "-", "keys">>,
                        v |-> TmuxArrayOf(<<[k |-> 0, v |-> PyStr(<<"on">>)]>>)]>>)}

InitConvert ==
    /\ value \in ScalarInputs \cup ContainerInputs
    /\ result = None
    /\ raised = NoExc
    /\ pc = "start"
    /\ array = <<>>
    /\ op = IdleOp
    /\ PipelineIdle
    /\ CommandIdle

ConvertValue ==
    /\ pc = "start"
    /\ pc' = "convert_value"
    /\ result' = convert_value(value).ret
    /\ raised' = convert_value(value).raised
    /\ UNCHANGED command
    /\ UNCHANGED <<value, array, op, pipeline>>

ConvertValues ==
    /\ pc = "start"
    /\ pc' = "convert_values"
    /\ value' = convert_values(value).arg
    /\ result' = convert_values(value).ret
    /\ raised' = convert_values(value).raised
    /\ UNCHANGED command
    /\ UNCHANGED <<array, op, pipeline>>

NextConvert == ConvertValue \/ ConvertValues

SpecConvert == InitConvert /\ [][NextConvert]_vars

----------------------------------------------------------------------------
(* Claims about the coercion.                                              *)

\* n written with w decimal digits
RECURSIVE Decimal(_, _)
Decimal(n, w) ==
    IF w = 0 THEN <<>>
    ELSE Append(Decimal(n \div 10, w - 1),
                CHOOSE c \in Digits : DigitValue(c) = n % 10)

RECURSIVE Pow10(_)
Pow10(w) == IF w = 0 THEN 1 ELSE 10 * Pow10(w - 1)

DigitOnly(s) == s # <<>> /\ \A i \in DOMAIN s : s[i] \in Digits

\* what the contract of convert_value asks for
Coerced(v) ==
    IF v.type # "str" THEN v
    ELSE IF DigitOnly(v.val)
         THEN PyInt(CHOOSE n \in 0..(Pow10(Len(v.val)) - 1) : Decimal(n, Len(v.val)) = v.val)
    ELSE IF v.val = <<"on">> THEN PyBool(TRUE)
    ELSE IF v.val = <<"off">> THEN PyBool(FALSE)
    ELSE v

\* C1: convert_value returns the integer for a digit-only string, True for
\* "on", False for "off", and every other value unchanged.
C1_ConvertValue ==
    pc = "convert_value" => raised = NoExc /\ result = Coerced(value)

IsContainer(v) == v.type \in {"dict", "TmuxArray", "list"}

ContainerKeys(v) == IF v.type = "list" THEN DOMAIN v.val ELSE DictKeys(v.val)

ContainerGet(v, key) == IF v.type = "list" THEN v.val[key] ELSE DictGet(v.val, key)

\* C9: convert_values on a mapping, a TmuxArray or a list does not raise,
\* returns the container it was given, keeps its keys and length, and
\* leaves convert_value(leaf) in the place of every leaf.
C9_ConvertValues ==
    [][(pc' = "convert_values" /\ IsContainer(value)) =>
          /\ raised' = NoExc
          /\ result' = value'
          /\ value'.type = value.type
          /\ Len(value'.val) = Len(value.val)
          /\ ContainerKeys(value') = ContainerKeys(value)
          /\ \A key \in ContainerKeys(value) :
                 ContainerGet(value', key) = Coerced(ContainerGet(value, key))
      ]_vars

----------------------------------------------------------------------------
(* str methods used by the parsers.                                        *)

\* c in s
Contains(s, c) == \E i \in DOMAIN s : s[i] = c

\* number of occurrences of c in s
RECURSIVE Count(_, _)
Count(s, c) ==
    IF s = <<>> THEN 0
    ELSE (IF Head(s) = c THEN 1 ELSE 0) + Count(Tail(s), c)

\* the position of the first c in s (s contains c)
Find(s, c) == Min({i \in DOMAIN s : s[i] = c})

\* s.split(sep, maxsplit=1): s itself when sep is absent
SplitOnce(s, sep) ==
    IF ~Contains(s, sep) THEN <<s>>
    ELSE <<SubSeq(s, 1, Find(s, sep) - 1), SubSeq(s, Find(s, sep) + 1, Len(s))>>

\* s.split(sep)
RECURSIVE Split(_, _)
Split(s, sep) ==
    IF ~Contains(s, sep) THEN <<s>>
    ELSE <<SubSeq(s, 1, Find(s, sep) - 1)>>
             \o Split(SubSeq(s, Find(s, sep) + 1, Len(s)), sep)

\* the characters str.strip() and shlex treat as whitespace
Whitespace == {" ", "\t", "\r", "\n"}

RECURSIVE lstrip(_, _)
lstrip(s, chars) ==
    IF s # <<>> /\ Head(s) \in chars THEN lstrip(Tail(s), chars) ELSE s

RECURSIVE rstrip(_, _)
rstrip(s, chars) ==
    IF s # <<>> /\ s[Len(s)] \in chars
    THEN rstrip(SubSeq(s, 1, Len(s) - 1), chars)
    ELSE s

\* s.strip()
strip(s) == lstrip(rstrip(s, Whitespace), Whitespace)

\* s.endswith(c)
endswith(s, c) == s # <<>> /\ s[Len(s)] = c

\* s.replace(old, new) for single characters
replace(s, old, new) == [i \in DOMAIN s |-> IF s[i] = old THEN new ELSE s[i]]

\* the str as one TLA+ string
RECURSIVE Join(_)
Join(s) == IF s = <<>> THEN "" ELSE Head(s) \o Join(Tail(s))

----------------------------------------------------------------------------
(* shlex.split(s): POSIX rules, split on whitespace only, no comments.     *)
(* state is shlex's state: "ws" between tokens, "a" inside a word, "sq"    *)
(* and "dq" inside quotes, "esc_a" and "esc_dq" after a backslash outside  *)
(* quotes and inside double quotes.                                        *)

RECURSIVE ShlexTokens(_, _, _, _, _)
ShlexTokens(s, i, state, token, tokens) ==
    IF i > Len(s)
    THEN IF state = "ws" THEN [raised |-> NoExc, ret |-> tokens]
         ELSE IF state = "a" THEN [raised |-> NoExc, ret |-> Append(tokens, token)]
         ELSE [raised |-> "ValueError", ret |-> <<>>]
    ELSE LET c == s[i]
         IN  CASE state = "ws" ->
                    IF c \in Whitespace THEN ShlexTokens(s, i + 1, "ws", <<>>, tokens)
                    ELSE IF c = "\\" THEN ShlexTokens(s, i + 1, "esc_a", <<>>, tokens)
                    ELSE IF c = "\"" THEN ShlexTokens(s, i + 1, "dq", <<>>, tokens)
                    ELSE IF c = "'" THEN ShlexTokens(s, i + 1, "sq", <<>>, tokens)
                    ELSE ShlexTokens(s, i + 1, "a", <<c>>, tokens)
               [] state = "a" ->
                    IF c \in Whitespace
                    THEN ShlexTokens(s, i + 1, "ws", <<>>, Append(tokens, token))
                    ELSE IF c = "\\" THEN ShlexTokens(s, i + 1, "esc_a", token, tokens)
                    ELSE IF c = "\"" THEN ShlexTokens(s, i + 1, "dq", token, tokens)
                    ELSE IF c = "'" THEN ShlexTokens(s, i + 1, "sq", token, tokens)
                    ELSE ShlexTokens(s, i + 1, "a", Append(token, c), tokens)
               [] state = "dq" ->
                    IF c = "\"" THEN ShlexTokens(s, i + 1, "a", token, tokens)
                    ELSE IF c = "\\" THEN ShlexTokens(s, i + 1, "esc_dq", token, tokens)
                    ELSE ShlexTokens(s, i + 1, "dq", Append(token, c), tokens)
               [] state = "sq" ->
                    IF c = "'" THEN ShlexTokens(s, i + 1, "a", token, tokens)
                    ELSE ShlexTokens(s, i + 1, "sq", Append(token, c), tokens)
               [] state = "esc_a" ->
                    ShlexTokens(s, i + 1, "a", Append(token, c), tokens)
               [] state = "esc_dq" ->
                    ShlexTokens(s, i + 1, "dq",
                                IF c \in {"\\", "\""} THEN Append(token, c)
                                ELSE token \o <<"\\", c>>,
                                tokens)

shlex_split(s) == ShlexTokens(s, 1, "ws", <<>>, <<>>)

----------------------------------------------------------------------------
(* parse_options_to_dict                                                   *)

\* stdout.readlines(): every line keeps its newline
RECURSIVE readlines(_)
readlines(text) ==
    IF text = <<>> THEN <<>>
    ELSE IF ~Contains(text, "\n") THEN <<text>>
    ELSE <<SubSeq(text, 1, Find(text, "\n"))>>
             \o readlines(SubSeq(text, Find(text, "\n") + 1, Len(text)))

\* the value kept as split, newline and all
StripNewline_kept(val) == val

\* val.rstrip("\n") when val is a str ending in a newline
StripNewline(val) ==
    IF IsStr(val) /\ endswith(val.val, "\n")
    THEN PyStr(rstrip(val.val, {"\n"}))
    ELSE val

\* Unpack(parts): key, val = parts, a ValueError unless there are two parts
Unpack(parts) ==
    IF Len(parts) = 2
    THEN [raised |-> NoExc, key |-> parts[1], val |-> PyStr(parts[2])]
    ELSE [raised |-> "ValueError", key |-> <<>>, val |-> None]

\* the line split at every space in the except
LineKeyVal_everyspace(item) ==
    IF Contains(item, " ")
    THEN LET words == shlex_split(item)
         IN  IF words.raised = NoExc /\ Len(words.ret) = 2
             THEN Unpack(words.ret)
             ELSE Unpack(Split(item, " "))
    ELSE [raised |-> NoExc, key |-> item, val |-> None]

\* the body of the loop: the (key, val) of one line, key not yet stripped;
\* the ValueError of shlex.split or of its unpacking is caught, the one of
\* the unpacking in the except is not
LineKeyVal(item) ==
    IF Contains(item, " ")
    THEN LET words == shlex_split(item)
         IN  IF words.raised = NoExc /\ Len(words.ret) = 2
             THEN Unpack(words.ret)
             ELSE Unpack(SplitOnce(item, " "))
    ELSE [raised |-> NoExc, key |-> item, val |-> None]

\* the exception that ends the loop, NoExc when it reaches its end
RECURSIVE ParseRaised(_)
ParseRaised(lines) ==
    IF lines = <<>> THEN NoExc
    ELSE IF LineKeyVal(Head(lines)).raised # NoExc
    THEN LineKeyVal(Head(lines)).raised
    ELSE ParseRaised(Tail(lines))

RECURSIVE ParseLines(_, _)
ParseLines(lines, output) ==
    IF lines = <<>> THEN output
    ELSE LET kv == LineKeyVal(Head(lines))
             key == strip(kv.key)
         IN  ParseLines(Tail(lines),
                        IF key # <<>> THEN DictSet(output, key, StripNewline(kv.val))
                        ELSE output)

parse_options_to_dict(text) == ParseLines(readlines(text), <<>>)

----------------------------------------------------------------------------
(* explode_arrays                                                          *)

\* the characters of the model's alphabet that [\w-] does not match
NonWord ==
    {" ", "\t", "\r", "\n", "\"", "'", "\\", ":", "=", "[", "]", "*", "%", "@", ","}

\* length of the longest prefix of s whose symbols are all in the set
RECURSIVE PrefixLen(_, _)
PrefixLen(s, set) ==
    IF s # <<>> /\ Head(s) \in set THEN 1 + PrefixLen(Tail(s), set) ELSE 0

RECURSIVE WordPrefixLen(_)
WordPrefixLen(s) ==
    IF s # <<>> /\ Head(s) \notin NonWord THEN 1 + WordPrefixLen(Tail(s)) ELSE 0

\* re.match(r"(?P<hook>[\w-]+)(\[(?P<index>\d+)\])?", key).groupdict();
\* matched is FALSE when re.match returns None, has_index when the index
\* group took part in the match
MatchHookIndex(key) ==
    LET n == WordPrefixLen(key)
        rest == SubSeq(key, n + 1, Len(key))
        d == IF rest # <<>> /\ Head(rest) = "[" THEN PrefixLen(Tail(rest), Digits) ELSE 0
        closed == d > 0 /\ Len(rest) >= d + 2 /\ rest[d + 2] = "]"
    IN  [matched |-> n > 0,
         hook |-> SubSeq(key, 1, n),
         has_index |-> n > 0 /\ closed,
         index |-> IF n > 0 /\ closed THEN SubSeq(rest, 2, d + 1) ELSE <<>>]

\* Default(): dict for the key "terminal-features", TmuxArray otherwise
\* the container chosen by the name before the index
Default_byname(key) ==
    IF Join(SplitOnce(key, "[")[1]) = "terminal-features"
    THEN PyDict(<<>>)
    ELSE TmuxArrayOf(<<>>)

Default(key) ==
    IF Join(key) = "terminal-features" THEN PyDict(<<>>) ELSE TmuxArrayOf(<<>>)

\* container[index] = val
WithItem(container, index, val) ==
    [type |-> container.type, val |-> DictSet(container.val, index, val)]

\* a lookup that never finds the key
DictGetOrNone_missing(d, key) == None

\* options.get(key)
DictGetOrNone(d, key) == IF DictHas(d, key) THEN DictGet(d, key) ELSE None

\* bool(val) of a str or None
Truthy(val) == IsStr(val) /\ val.val # <<>>

\* the body of the loop for one (key, val)
ExplodeItem(options, key, val, force) ==
    IF ~Contains(key, "[")
    THEN IF force
         THEN DictSet(options, key,
                      IF val # None THEN WithItem(Default(key), 0, val)
                      ELSE Default(key))
         ELSE DictSet(options, key, val)
    ELSE LET m == MatchHookIndex(key)
         IN  IF ~(m.matched /\ m.hook # <<>> /\ m.has_index /\ m.index # <<>>)
             THEN options
             ELSE LET hook == m.hook
                      index == int(m.index).ret.val
                      created == IF DictGetOrNone(options, hook) = None
                                 THEN DictSet(options, hook, Default(key))
                                 ELSE options
                      target == DictGet(created, hook)
                  IN  IF IsDict(target)
                      THEN DictSet(created, hook, WithItem(target, index, val))
                      \* item assignment to a str: TypeError, handled by the except
                      ELSE IF force /\ Truthy(val)
                           THEN DictSet(created, hook,
                                        IF IsTmuxArray(Default(key))
                                        THEN WithItem(Default(key), 0, val)
                                        ELSE Default(key))
                           ELSE DictSet(created, hook, val)

RECURSIVE ExplodeItems(_, _, _)
ExplodeItems(items, options, force) ==
    IF items = <<>> THEN options
    ELSE ExplodeItems(Tail(items),
                      ExplodeItem(options, Head(items).k, Head(items).v, force),
                      force)

explode_arrays(_dict, force) == ExplodeItems(_dict, <<>>, force)

----------------------------------------------------------------------------
(* explode_complex                                                         *)

\* the features kept as the one string after the term
FeaturesItem_unsplit(new_val, item) ==
    IF ~IsStr(item) \/ Len(SplitOnce(item.val, ":")) # 2 THEN new_val
    ELSE DictSet(new_val, SplitOnce(item.val, ":")[1],
                 PyList(<<PyStr(SplitOnce(item.val, ":")[2])>>))

\* one element of terminal-features; an element that cannot be split is
\* skipped by the except
FeaturesItem(new_val, item) ==
    IF ~IsStr(item) \/ Len(SplitOnce(item.val, ":")) # 2 THEN new_val
    ELSE LET term == SplitOnce(item.val, ":")[1]
             features == Split(SplitOnce(item.val, ":")[2], ":")
         IN  DictSet(new_val, term,
                     PyList([i \in DOMAIN features |-> PyStr(features[i])]))

\* one element of terminal-overrides
OverridesItem(new_overrides, item) ==
    IF ~IsStr(item) \/ Len(SplitOnce(item.val, ":")) # 2 THEN new_overrides
    ELSE LET term == SplitOnce(item.val, ":")[1]
             features == SplitOnce(item.val, ":")[2]
             with_term == IF DictHas(new_overrides, term) THEN new_overrides
                          ELSE DictSet(new_overrides, term, PyDict(<<>>))
             entry == DictGet(with_term, term)
         IN  IF features # <<>> /\ Contains(features, "=")
             THEN LET kv == Split(features, "=")
                  IN  IF Len(kv) # 2 THEN with_term
                      ELSE IF isdigit(kv[2])
                           THEN IF int(kv[2]).raised # NoExc THEN with_term
                                ELSE DictSet(with_term, term,
                                             WithItem(entry, kv[1], int(kv[2]).ret))
                      ELSE DictSet(with_term, term, WithItem(entry, kv[1], PyStr(kv[2])))
             ELSE DictSet(with_term, term, WithItem(entry, features, None))

\* the command cut at its next "="
AliasItem_everyequals(new_aliases, item) ==
    IF ~IsStr(item) \/ Len(SplitOnce(item.val, "=")) # 2 THEN new_aliases
    ELSE DictSet(new_aliases, Split(item.val, "=")[1], PyStr(Split(item.val, "=")[2]))

\* one element of command-alias
AliasItem(new_aliases, item) ==
    IF ~IsStr(item) \/ Len(SplitOnce(item.val, "=")) # 2 THEN new_aliases
    ELSE DictSet(new_aliases, SplitOnce(item.val, "=")[1],
                 PyStr(SplitOnce(item.val, "=")[2]))

\* for item in val.iter_values(): the elements folded in index order
RECURSIVE FoldFeatures(_, _)
FoldFeatures(items, acc) ==
    IF items = <<>> THEN acc ELSE FoldFeatures(Tail(items), FeaturesItem(acc, Head(items)))

RECURSIVE FoldOverrides(_, _)
FoldOverrides(items, acc) ==
    IF items = <<>> THEN acc ELSE FoldOverrides(Tail(items), OverridesItem(acc, Head(items)))

RECURSIVE FoldAliases(_, _)
FoldAliases(items, acc) ==
    IF items = <<>> THEN acc ELSE FoldAliases(Tail(items), AliasItem(acc, Head(items)))

\* the value explode_complex stores for one (key, val)
ComplexValue(key, val) ==
    IF IsTmuxArray(val) /\ Join(key) = "terminal-features"
    THEN PyDict(FoldFeatures(iter_values(val.val), <<>>))
    ELSE IF IsTmuxArray(val) /\ Join(key) = "terminal-overrides"
    THEN PyDict(FoldOverrides(iter_values(val.val), <<>>))
    ELSE IF IsTmuxArray(val) /\ Join(key) = "command-alias"
    THEN PyDict(FoldAliases(iter_values(val.val), <<>>))
    ELSE val

explode_complex(_dict) ==
    [i \in DOMAIN _dict |-> [k |-> _dict[i].k, v |-> ComplexValue(_dict[i].k, _dict[i].v)]]

----------------------------------------------------------------------------
(* Texts for the parsers.  A text is the lines joined by newlines, with or *)
(* without a newline after the last line, as io.StringIO holds it.         *)

\* the sequences of 1..n elements of the set
RECURSIVE SeqsUpTo(_, _)
SeqsUpTo(set, n) ==
    IF n = 0 THEN {}
    ELSE {<<x>> : x \in set}
           \cup {Append(q, x) : q \in SeqsUpTo(set, n - 1), x \in set}

\* "\n".join(lines)
RECURSIVE JoinLines(_)
JoinLines(lines) ==
    IF lines = <<>> THEN <<>>
    ELSE IF Len(lines) = 1 THEN Head(lines)
    ELSE Head(lines) \o <<"\n">> \o JoinLines(Tail(lines))

\* a line: the key, and after one space the value when there is one
Line(key, val) == key \o <<" ">> \o val

TextsOf(bodies, n) ==
    {JoinLines(lines) : lines \in SeqsUpTo(bodies, n)}
        \cup {JoinLines(lines) \o <<"\n">> : lines \in SeqsUpTo(bodies, n)}

\* lines as tmux prints them: a key, a key and a value, or nothing
ParseBodies ==
    LET keys == {<<"status", "-", "keys">>, <<"escape", "-", "time">>,
                 <<"command", "-", "alias", "[", "0", "]">>}
        values ==
            {<<"vi">>,                                              \* vi
             <<"5", "0">>,                                          \* 50
             <<"\"", "choose", "=", "tree", " ", "-", "s", "\"">>,  \* "choose=tree -s"
             <<"\"", "\\", "e", "[", "test", "\"">>,                \* "\e[test"
             <<"'", "'">>,                                          \* ''
             <<"bg", "=", "red", " ", "bold">>,                     \* bg=red bold
             <<"\"", "vi">>,                                        \* "vi  (no closing quote)
             <<>>}                                                  \* nothing after the space
    IN  keys \cup {Line(key, val) : key \in keys, val \in values} \cup {<<>>}

----------------------------------------------------------------------------
(* The parser state machine: parse_options_to_dict on a text.              *)

InitPipeline(texts) ==
    /\ stdout \in texts
    /\ untyped = <<>>
    /\ force_array = FALSE
    /\ exploded = <<>>
    /\ complex = <<>>
    /\ typed = <<>>
    /\ cls = "none"
    /\ record = <<>>
    /\ pc = "stdout"
    /\ raised = NoExc
    /\ array = <<>>
    /\ op = IdleOp
    /\ value = None
    /\ result = None

InitParse == InitPipeline(TextsOf(ParseBodies, MaxParseLines)) /\ CommandIdle

Parse ==
    /\ pc = "stdout"
    /\ raised' = ParseRaised(readlines(stdout))
    /\ pc' = IF raised' = NoExc THEN "parsed" ELSE "raised"
    /\ untyped' = IF raised' = NoExc THEN parse_options_to_dict(stdout) ELSE untyped
    /\ UNCHANGED command
    /\ UNCHANGED <<stdout, force_array, exploded, complex, typed, cls, record,
                   array, op, value, result>>

SpecParse == InitParse /\ [][Parse]_vars

----------------------------------------------------------------------------
(* Claims about parse_options_to_dict.                                     *)

\* the lines of the text, without their newlines
TextLines(text) == Split(text, "\n")

\* the part of a line before its first space
FirstWord(line) == SplitOnce(line, " ")[1]

\* the part of a line after its first space
AfterFirstWord(line) == SplitOnce(line, " ")[2]

Quotes == {"\"", "'"}

\* a string without quoting: no quote, no backslash, no space at either end
Plain(s) ==
    /\ s # <<>>
    /\ \A i \in DOMAIN s : s[i] \notin Quotes \cup {"\\"}
    /\ s[1] \notin Whitespace /\ s[Len(s)] \notin Whitespace

\* one shell-quoted word: a pair of quotes around text that holds no quote
\* and, between double quotes, no backslash escaping a quote or a backslash
ShellQuoted(s) ==
    /\ Len(s) >= 2
    /\ s[1] \in Quotes /\ s[Len(s)] = s[1]
    /\ \A i \in 2..(Len(s) - 1) :
           /\ s[i] \notin Quotes
           /\ (s[i] = "\\" /\ s[1] = "\"") => s[i + 1] \notin Quotes \cup {"\\"}

Unquoted(s) == SubSeq(s, 2, Len(s) - 1)

\* no later line of the text sets the same key again
LastWithKey(lines, j) ==
    \A later \in (j + 1)..Len(lines) : FirstWord(lines[later]) # FirstWord(lines[j])

\* C2: a line "KEY VALUE" gives KEY -> VALUE as a string (digits stay a
\* string, a quoted VALUE loses its quotes and keeps its spaces), a line
\* without a space gives KEY -> None, and no key or value ends in a newline.
C2_ParseLines ==
    pc = "parsed" =>
        /\ \A j \in DOMAIN TextLines(stdout) :
               LET line == TextLines(stdout)[j]
               IN  (Plain(FirstWord(line)) /\ LastWithKey(TextLines(stdout), j)) =>
                       IF ~Contains(line, " ")
                       THEN /\ DictHas(untyped, line)
                            /\ DictGet(untyped, line) = None
                       ELSE /\ Plain(AfterFirstWord(line)) =>
                                /\ DictHas(untyped, FirstWord(line))
                                /\ DictGet(untyped, FirstWord(line))
                                       = PyStr(AfterFirstWord(line))
                            /\ ShellQuoted(AfterFirstWord(line)) =>
                                /\ DictHas(untyped, FirstWord(line))
                                /\ DictGet(untyped, FirstWord(line))
                                       = PyStr(Unquoted(AfterFirstWord(line)))
        /\ \A i \in DOMAIN untyped :
               /\ ~endswith(untyped[i].k, "\n")
               /\ IsStr(untyped[i].v) => ~endswith(untyped[i].v.val, "\n")

\* a quoted value with a space in it on a line that is not the last, a value
\* of several words, and a key without a value on the last line
C2_Witness ==
    /\ pc = "parsed"
    /\ stdout = Line(<<"command", "-", "alias", "[", "0", "]">>,
                     <<"\"", "choose", "=", "tree", " ", "-", "s", "\"">>)
                  \o <<"\n">> \o <<"status", "-", "keys">>
    /\ untyped = <<[k |-> <<"command", "-", "alias", "[", "0", "]">>,
                    v |-> PyStr(<<"choose", "=", "tree", " ", "-", "s">>)],
                   [k |-> <<"status", "-", "keys">>, v |-> None]>>

----------------------------------------------------------------------------
(* The array state machine: the lines tmux prints for array options are    *)
(* parsed, then exploded.  tmux prints an array option either as its bare  *)
(* name (no element set) or as one line name[N] per element, never both,   *)
(* and prints no key twice.                                                *)

\* the key name[N]
Indexed(name, n) == name \o <<"[">> \o n \o <<"]">>

\* the name of a key, without its [N]
BaseName(key) == SplitOnce(key, "[")[1]

\* the sequences of 1..n lines tmux can print: no key twice, and no name
\* both bare and with an index
TmuxLines(bodies, n) ==
    {lines \in SeqsUpTo(bodies, n) :
        \A i, j \in DOMAIN lines :
            i # j =>
                /\ FirstWord(lines[i]) # FirstWord(lines[j])
                /\ BaseName(FirstWord(lines[i])) = BaseName(FirstWord(lines[j]))
                       => /\ Contains(FirstWord(lines[i]), "[")
                          /\ Contains(FirstWord(lines[j]), "[")}

ArrayNames == {<<"command", "-", "alias">>, <<"user", "-", "keys">>}

ArrayIndices == {<<"0">>, <<"1">>, <<"5">>}

ArrayBodies ==
    {Line(Indexed(name, n), val) :
         name \in ArrayNames, n \in ArrayIndices,
         val \in {<<"split", "-", "pane", "=", "split", "-", "window">>, <<"5", "0">>}}
      \cup ArrayNames
      \cup {Line(<<"status", "-", "keys">>, <<"vi">>)}

InitExplode ==
    /\ InitPipeline({JoinLines(lines) : lines \in TmuxLines(ArrayBodies, MaxArrayLines)})
    /\ CommandIdle

ExplodeArrays(force) ==
    /\ pc = "parsed"
    /\ pc' = "exploded"
    /\ force_array' = force
    /\ exploded' = explode_arrays(untyped, force)
    /\ UNCHANGED command
    /\ UNCHANGED <<stdout, untyped, complex, typed, cls, record,
                   raised, array, op, value, result>>

NextExplode ==
    \/ Parse
    \/ \E force \in BOOLEAN : ExplodeArrays(force)

SpecExplode == InitExplode /\ [][NextExplode]_vars

----------------------------------------------------------------------------
(* Claims about explode_arrays.                                            *)

\* a key of the form name[N]
HasIndexSuffix(key) ==
    /\ Contains(key, "[")
    /\ key[Len(key)] = "]"
    /\ LET n == SubSeq(key, Find(key, "[") + 1, Len(key) - 1)
       IN  n # <<>> /\ \A i \in DOMAIN n : n[i] \in Digits

\* the N of a key name[N], as a number
IndexOf(key) == DecimalValue(SubSeq(key, Find(key, "[") + 1, Len(key) - 1))

\* the keys of the flat dict that are elements of the array called name
ElementsOf(flat, name) ==
    {key \in DictKeys(flat) : HasIndexSuffix(key) /\ BaseName(key) = name}

\* C3: without force_array, the keys name[N] of the input are grouped into
\* one container under name, whose indices are exactly the N of the input,
\* each holding the raw string of its line whatever the order of the lines;
\* a key without a suffix keeps its value; the result has no other key.
C3_ExplodeArrays ==
    (pc = "exploded" /\ ~force_array) =>
        /\ DictKeys(exploded) = {BaseName(key) : key \in DictKeys(untyped)}
        /\ \A key \in DictKeys(untyped) :
               IF HasIndexSuffix(key)
               THEN LET container == DictGet(exploded, BaseName(key))
                    IN  /\ IsDict(container)
                        /\ DictKeys(container.val)
                               = {IndexOf(e) : e \in ElementsOf(untyped, BaseName(key))}
                        /\ Len(container.val)
                               = Cardinality(ElementsOf(untyped, BaseName(key)))
                        /\ DictGet(container.val, IndexOf(key)) = DictGet(untyped, key)
                        /\ IsStr(DictGet(untyped, key))
               ELSE DictGet(exploded, key) = DictGet(untyped, key)

\* indices 5 and 0 of user-keys, printed in that order, next to a scalar
C3_Witness ==
    /\ pc = "exploded" /\ ~force_array
    /\ Len(untyped) = 3
    /\ untyped[1].k = <<"user", "-", "keys", "[", "5", "]">>
    /\ untyped[2].k = <<"status", "-", "keys">>
    /\ untyped[3].k = <<"user", "-", "keys", "[", "0", "]">>
    /\ exploded = <<[k |-> <<"user", "-", "keys">>,
                     v |-> TmuxArrayOf(<<[k |-> 5, v |-> untyped[1].v],
                                         [k |-> 0, v |-> untyped[3].v]>>)],
                    [k |-> <<"status", "-", "keys">>, v |-> PyStr(<<"vi">>)]>>

----------------------------------------------------------------------------
(* The complex-option state machine: the lines tmux prints for             *)
(* terminal-features, terminal-overrides and command-alias are parsed,     *)
(* exploded into arrays, then exploded into their mappings.                *)

TerminalFeatures == <<"terminal", "-", "features">>

TerminalOverrides == <<"terminal", "-", "overrides">>

CommandAlias == <<"command", "-", "alias">>

FeatureElements ==
    {<<"xterm", "*", ":", "clipboard", ":", "ccolour">>,    \* xterm*:clipboard:ccolour
     <<"screen", "*", ":", "title">>,                      \* screen*:title
     <<"xterm", "*", ":", "RGB">>,                         \* xterm*:RGB
     <<"tmux", "*">>}                                      \* tmux*  (no ":")

OverrideElements ==
    {<<"xterm", ":", "Tc">>,                               \* xterm:Tc
     <<"xterm", ":", "U", "8", "=", "0">>,                 \* xterm:U8=0
     <<"*", ":", "U", "8", "=", "0">>,                     \* *:U8=0
     <<"xterm", ":", "Ms", "=", "vi">>,                    \* xterm:Ms=vi
     <<"xterm", ":", "U", "8", "=", "²">>,                 \* xterm:U8=²
     <<"screen", ":", "a", "=", "b", "=", "c">>,           \* screen:a=b=c
     <<"tmux">>}                                           \* tmux  (no ":")

AliasElements ==
    {<<"split", "-", "pane", "=", "split", "-", "window">>,
     \* "info=show-messages -JT"
     <<"\"", "info", "=", "show", "-", "messages", " ", "-", "JT", "\"">>,
     \* "split-pane=set @a=b"
     <<"\"", "split", "-", "pane", "=", "set", " ", "@", "a", "=", "b", "\"">>,
     <<"info">>}                                           \* info  (no "=")

ComplexBodies ==
    {Line(Indexed(TerminalFeatures, n), e) : n \in ArrayIndices, e \in FeatureElements}
      \cup {Line(Indexed(TerminalOverrides, n), e) :
                n \in {<<"0">>, <<"1">>}, e \in OverrideElements}
      \cup {Line(Indexed(CommandAlias, n), e) : n \in {<<"0">>, <<"1">>}, e \in AliasElements}
      \cup {TerminalFeatures, TerminalOverrides, CommandAlias}

InitComplex ==
    /\ InitPipeline({JoinLines(lines) : lines \in TmuxLines(ComplexBodies, MaxComplexLines)})
    /\ CommandIdle

ExplodeComplex ==
    /\ pc = "exploded"
    /\ pc' = "complex"
    /\ complex' = explode_complex(exploded)
    /\ UNCHANGED command
    /\ UNCHANGED <<stdout, untyped, force_array, exploded, typed, cls, record,
                   raised, array, op, value, result>>

NextComplex ==
    \/ Parse
    \/ \E force \in BOOLEAN : ExplodeArrays(force)
    \/ ExplodeComplex

SpecComplex == InitComplex /\ [][NextComplex]_vars

----------------------------------------------------------------------------
(* Claims about explode_complex.                                           *)

\* the part of a string before its first c, and the part after it
Before(s, c) == SubSeq(s, 1, Find(s, c) - 1)

After(s, c) == SubSeq(s, Find(s, c) + 1, Len(s))

\* the strings of a list joined by c
RECURSIVE JoinWith(_, _)
JoinWith(l, c) ==
    IF l = <<>> THEN <<>>
    ELSE IF Len(l) = 1 THEN l[1].val
    ELSE l[1].val \o <<c>> \o JoinWith(Tail(l), c)

\* the elements of the array option called key: its (index, string) pairs
Elements(key) ==
    IF DictHas(exploded, key) /\ IsTmuxArray(DictGet(exploded, key))
    THEN {e \in Range(DictGet(exploded, key).val) : IsStr(e.v) /\ e.v.val # <<>>}
    ELSE {}

\* the element is the one of highest index among those that give the same
\* entry, the one a mapping keeps
Final(key, e, EntryOf(_)) ==
    \A other \in Elements(key) : EntryOf(other.v.val) = EntryOf(e.v.val) => other.k <= e.k

FeatureTerm(item) == IF Contains(item, ":") THEN Before(item, ":") ELSE <<"no term">>

\* C6: every element term:f1:f2:... of terminal-features gives the entry
\* term -> [f1, f2, ...] of a plain mapping (the element of highest index
\* when several name the same term), whatever the indices of the elements,
\* and the mapping has no other entry.
C6_TerminalFeatures ==
    (pc = "complex" /\ Elements(TerminalFeatures) # {}) =>
        LET out == DictGet(complex, TerminalFeatures)
        IN  /\ out.type = "dict"
            /\ DictKeys(out.val)
                   = {FeatureTerm(e.v.val) :
                          e \in {x \in Elements(TerminalFeatures) : Contains(x.v.val, ":")}}
            /\ \A e \in Elements(TerminalFeatures) :
                   (Contains(e.v.val, ":") /\ Final(TerminalFeatures, e, FeatureTerm)) =>
                       LET features == DictGet(out.val, Before(e.v.val, ":"))
                       IN  /\ IsList(features)
                           /\ \A i \in DOMAIN features.val :
                                  /\ IsStr(features.val[i])
                                  /\ ~Contains(features.val[i].val, ":")
                           /\ JoinWith(features.val, ":") = After(e.v.val, ":")

\* elements 5 and 0, printed in that order, for two terms
C6_Witness ==
    /\ pc = "complex"
    /\ stdout = JoinLines(<<Line(Indexed(TerminalFeatures, <<"5">>), <<"screen", "*", ":", "title">>),
                            Line(Indexed(TerminalFeatures, <<"0">>),
                                 <<"xterm", "*", ":", "clipboard", ":", "ccolour">>)>>)
    /\ AsMap(DictGet(complex, TerminalFeatures).val)
           = AsMap(<<[k |-> <<"xterm", "*">>,
                      v |-> PyList(<<PyStr(<<"clipboard">>), PyStr(<<"ccolour">>)>>)],
                     [k |-> <<"screen", "*">>, v |-> PyList(<<PyStr(<<"title">>)>>)]>>)

\* the key an element of terminal-overrides sets, within its term
OverrideSpec(item) == After(item, ":")

OverrideKey(item) ==
    IF Contains(OverrideSpec(item), "=") THEN Before(OverrideSpec(item), "=")
    ELSE OverrideSpec(item)

OverrideEntry(item) == <<Before(item, ":"), OverrideKey(item)>>

\* the value of a spec k=v: a number when v is all digits
OverrideValue(item) ==
    LET v == After(OverrideSpec(item), "=")
    IN  IF DigitOnly(v) THEN Coerced(PyStr(v)) ELSE PyStr(v)

\* C7: every element term:spec of terminal-overrides is found in a plain
\* mapping under its term, spec -> None without "=", and k -> v for a spec
\* k=v, v as a number when it is all digits; the elements of one term are
\* all in the mapping of that term.
C7_TerminalOverrides ==
    (pc = "complex" /\ Elements(TerminalOverrides) # {}) =>
        LET out == DictGet(complex, TerminalOverrides)
        IN  /\ out.type = "dict"
            /\ \A e \in Elements(TerminalOverrides) :
                   (/\ Contains(e.v.val, ":")
                    /\ Count(OverrideSpec(e.v.val), "=") <= 1
                    /\ Final(TerminalOverrides, e, OverrideEntry)) =>
                       /\ DictHas(out.val, Before(e.v.val, ":"))
                       /\ LET entry == DictGet(out.val, Before(e.v.val, ":"))
                          IN  /\ entry.type = "dict"
                              /\ DictHas(entry.val, OverrideKey(e.v.val))
                              /\ DictGet(entry.val, OverrideKey(e.v.val))
                                     = IF Contains(OverrideSpec(e.v.val), "=")
                                       THEN OverrideValue(e.v.val)
                                       ELSE None

AliasName(item) == IF Contains(item, "=") THEN Before(item, "=") ELSE <<"no alias">>

\* C8: every element alias=command of command-alias gives the entry
\* alias -> command of a plain mapping, the command being all that follows
\* the first "=", its spaces and further "=" included.
C8_CommandAlias ==
    (pc = "complex" /\ Elements(CommandAlias) # {}) =>
        LET out == DictGet(complex, CommandAlias)
        IN  /\ out.type = "dict"
            /\ DictKeys(out.val)
                   = {AliasName(e.v.val) :
                          e \in {x \in Elements(CommandAlias) : Contains(x.v.val, "=")}}
            /\ \A e \in Elements(CommandAlias) :
                   (Contains(e.v.val, "=") /\ Final(CommandAlias, e, AliasName)) =>
                       DictGet(out.val, Before(e.v.val, "="))
                           = PyStr(After(e.v.val, "="))

\* a command with a space and a second "=", next to a plain alias
C8_Witness ==
    /\ pc = "complex"
    /\ DictHas(complex, CommandAlias)
    /\ DictGet(complex, CommandAlias)
           = PyDict(<<[k |-> <<"info">>,
                       v |-> PyStr(<<"show", "-", "messages", " ", "-", "JT">>)],
                      [k |-> <<"split", "-", "pane">>,
                       v |-> PyStr(<<"set", " ", "@", "a", "=", "b">>)]>>)

----------------------------------------------------------------------------
(* The typed records of _internal/constants.py.  A record is the          *)
(* __dict__ of the instance: what __init__ has set on it.                  *)

\* the fields class ServerOptions declares
ServerOptionsFields ==
    {"backspace", "buffer_limit", "command_alias", "default_terminal",
     "copy_command", "escape_time", "editor", "exit_empty",
     "exit_unattached", "extended_keys", "focus_events", "history_file",
     "message_limit", "prompt_history_limit", "set_clipboard",
     "terminal_features", "terminal_overrides", "user_keys"}

\* the fields class SessionOptions declares
SessionOptionsFields ==
    {"activity_action", "assume_paste_time", "base_index", "bell_action",
     "default_command", "default_shell", "default_size",
     "destroy_unattached", "detach_on_destroy",
     "display_panes_active_colour", "display_panes_colour",
     "display_panes_time", "display_time", "history_limit", "key_table",
     "lock_after_time", "lock_command", "menu_style",
     "menu_selected_style", "menu_border_style", "menu_border_lines",
     "message_command_style", "message_line", "message_style", "mouse",
     "prefix", "prefix2", "renumber_windows", "repeat_time", "set_titles",
     "set_titles_string", "silence_action", "status", "status_format",
     "status_interval", "status_justify", "status_keys", "status_left",
     "status_left_length", "status_left_style", "status_position",
     "status_right", "status_right_length", "status_right_style",
     "status_style", "update_environment", "visual_activity",
     "visual_bell", "visual_silence", "word_separators"}

\* the fields class WindowOptions declares
WindowOptionsFields ==
    {"aggressive_resize", "automatic_rename", "automatic_rename_format",
     "clock_mode_colour", "clock_mode_style", "fill_character",
     "main_pane_height", "main_pane_width", "copy_mode_match_style",
     "copy_mode_mark_style", "copy_mode_current_match_style", "mode_keys",
     "mode_style", "monitor_activity", "monitor_bell", "monitor_silence",
     "other_pane_height", "other_pane_width", "pane_active_border_style",
     "pane_base_index", "pane_border_format", "pane_border_indicators",
     "pane_border_lines", "pane_border_status", "pane_border_style",
     "popup_style", "popup_border_style", "popup_border_lines",
     "window_status_activity_style", "window_status_bell_style",
     "window_status_current_format", "window_status_current_style",
     "window_status_format", "window_status_last_style",
     "window_status_separator", "window_status_style", "window_size",
     "wrap_search"}

\* the fields class PaneOptions declares
PaneOptionsFields ==
    {"allow_passthrough", "allow_rename", "alternate_screen",
     "cursor_colour", "pane_colours", "cursor_style", "remain_on_exit",
     "remain_on_exit_format", "scroll_on_clear", "synchronize_panes",
     "window_active_style", "window_style"}

\* dataclasses.fields(cls): class Options inherits the fields of the four
Fields(c) ==
    CASE c = "ServerOptions" -> ServerOptionsFields
      [] c = "SessionOptions" -> SessionOptionsFields
      [] c = "WindowOptions" -> WindowOptionsFields
      [] c = "PaneOptions" -> PaneOptionsFields
      [] c = "Options" -> ServerOptionsFields \cup SessionOptionsFields
                            \cup WindowOptionsFields \cup PaneOptionsFields

\* the key taken as the attribute name, hyphens and all
AttributeName_hyphens(c, key) ==
    IF c = "Options" THEN Join(rstrip(key, {"*"})) ELSE Join(key)

\* the attribute name __init__ of class c makes of a key
AttributeName(c, key) ==
    LET key_underscored == replace(key, "-", "_")
    IN  IF c = "Options" THEN Join(rstrip(key_underscored, {"*"}))
        ELSE Join(key_underscored)

\* for key, value in kwargs.items(): setattr(self, name, value)
RECURSIVE SetAttrs(_, _, _)
SetAttrs(c, kwargs, self) ==
    IF kwargs = <<>> THEN self
    ELSE SetAttrs(c, Tail(kwargs),
                  DictSet(self, AttributeName(c, Head(kwargs).k), Head(kwargs).v))

\* cls(**kwargs)
__init__(c, kwargs) == SetAttrs(c, kwargs, <<>>)

\* the fields declared with a default_factory: dataclass leaves no class
\* attribute for them, and __init__ of the class does not set them
FactoryFields == {"command_alias", "terminal_features", "terminal_overrides", "user_keys"}

\* getattr(self, name) on an instance of class c: the instance attribute,
\* else the class attribute a field with default=None has
getattr(c, self, name) ==
    IF DictHas(self, name) THEN [raised |-> NoExc, ret |-> DictGet(self, name)]
    ELSE IF name \in Fields(c) \ FactoryFields THEN [raised |-> NoExc, ret |-> None]
    ELSE [raised |-> "AttributeError", ret |-> None]

----------------------------------------------------------------------------
(* handle_option_error: the first line of a command's error stream is      *)
(* turned into the exception raised.                                       *)

\* sub in s, for two strs
InStr(sub, s) ==
    \E i \in 0..(Len(s) - Len(sub)) : SubSeq(s, i + 1, i + Len(sub)) = sub

\* the branch that would raise AmbiguousOption left out
handle_option_error_two_kinds(error) ==
    IF InStr(<<"unknown", " ", "option">>, error) THEN "UnknownOption"
    ELSE IF InStr(<<"invalid", " ", "option">>, error) THEN "InvalidOption"
    ELSE "OptionError"

\* the exception handle_option_error raises
handle_option_error(error) ==
    IF InStr(<<"unknown", " ", "option">>, error) THEN "UnknownOption"
    ELSE IF InStr(<<"invalid", " ", "option">>, error) THEN "InvalidOption"
    ELSE IF InStr(<<"ambiguous", " ", "option">>, error) THEN "AmbiguousOption"
    ELSE "OptionError"

\* the exceptions that have exc.OptionError as their base
OptionErrors == {"OptionError", "UnknownOption", "InvalidOption", "AmbiguousOption"}

----------------------------------------------------------------------------
(* Scopes and the flags of a command.  A scope argument is a member of     *)
(* OptionScope, None ("None") or the DEFAULT_OPTION_SCOPE sentinel.        *)

OptionScope == {"Server", "Session", "Window", "Pane"}

DEFAULT_OPTION_SCOPE == "DEFAULT_OPTION_SCOPE"

\* the flags in the order the scopes are listed: none, -s, -w, -p
OPTION_SCOPE_FLAG_MAP_listed ==
    [Server |-> "", Session |-> "-s", Window |-> "-w", Pane |-> "-p"]

OPTION_SCOPE_FLAG_MAP ==
    [Server |-> "-s", Session |-> "", Window |-> "-w", Pane |-> "-p"]

\* hooks.py imports HOOK_SCOPE_FLAG_MAP from libtmux.constants, which does
\* not define it; the map is the fixed mapping of scopes to command flags
HOOK_SCOPE_FLAG_MAP ==
    [Server |-> "", Session |-> "-s", Window |-> "-w", Pane |-> "-p"]

\* the scope argument taken for the sentinel whatever the caller passed
ResolveScope_default(scope, default) == default

\* if scope is DEFAULT_OPTION_SCOPE: scope = self.default_option_scope
ResolveScope(scope, default) ==
    IF scope = DEFAULT_OPTION_SCOPE THEN default ELSE scope

\* flags.append(flag) under its condition
Flag(cond, flag) == IF cond THEN <<flag>> ELSE <<>>

\* the scope flag of an option command
OptionScopeFlags(scope) ==
    IF scope # "None" /\ scope # DEFAULT_OPTION_SCOPE
    THEN <<OPTION_SCOPE_FLAG_MAP[scope]>>
    ELSE <<>>

\* no version of tmux has the flag left out
HookScopeIgnored_never(scope, lt_3_2) == FALSE

\* the scope flag of a hook command is left out, with a warning, for -p and
\* -w when has_lt_version("3.2")
HookScopeIgnored(scope, lt_3_2) ==
    /\ scope # "None" /\ scope # DEFAULT_OPTION_SCOPE
    /\ HOOK_SCOPE_FLAG_MAP[scope] \in {"-p", "-w"}
    /\ lt_3_2

HookScopeFlags(scope, lt_3_2) ==
    IF scope # "None" /\ scope # DEFAULT_OPTION_SCOPE /\ ~HookScopeIgnored(scope, lt_3_2)
    THEN <<HOOK_SCOPE_FLAG_MAP[scope]>>
    ELSE <<>>

\* the stderr check left out
CheckStderr_skipped(err) == NoExc

\* if len(cmd.stderr): handle_option_error(cmd.stderr[0])
CheckStderr(err) == IF Len(err) > 0 THEN handle_option_error(err[1]) ELSE NoExc

\* cmd.stdout, a list of lines, of the text held in stdout
StdoutLines(text) == IF text = <<>> THEN <<>> ELSE Split(text, "\n")

\* the loop of show_hooks: a line of two words whose second is a digit
\* string adds an entry
RECURSIVE ShowHooksItems(_, _)
ShowHooksItems(output, hooks) ==
    IF output = <<>> THEN [raised |-> NoExc, ret |-> PyDict(hooks)]
    ELSE LET words == shlex_split(Head(output))
             two == words.raised = NoExc /\ Len(words.ret) = 2
         IN  IF two /\ isdigit(words.ret[2])
             THEN IF int(words.ret[2]).raised # NoExc
                  THEN [raised |-> int(words.ret[2]).raised, ret |-> None]
                  ELSE ShowHooksItems(Tail(output),
                                      DictSet(hooks, words.ret[1], int(words.ret[2]).ret))
             ELSE ShowHooksItems(Tail(output), hooks)

----------------------------------------------------------------------------
(* The options state machine: _show_options reads the lines tmux printed   *)
(* and a record is built of what it returns.                               *)

OptionBodies ==
    {Line(<<"buffer", "-", "limit">>, <<"5", "0">>),
     Line(<<"status", "-", "keys">>, <<"vi">>),
     Line(<<"visual", "-", "activity", "*">>, <<"on">>),
     Line(<<"mouse">>, <<"off">>),
     Line(<<"@", "custom">>, <<"test">>),
     Line(<<"@", "custom">>, <<"²">>),
     Line(<<"window", "-", "style">>, <<"default">>),
     Line(Indexed(CommandAlias, <<"0">>), <<"split", "-", "pane", "=", "split", "-", "window">>),
     Line(Indexed(TerminalFeatures, <<"0">>), <<"xterm", "*", ":", "title">>),
     Line(Indexed(TerminalOverrides, <<"0">>), <<"xterm", ":", "Tc">>),
     Line(Indexed(<<"@", "opt">>, <<"0">>), <<"vi">>),
     Line(Indexed(<<"foo">>, <<"abc">>), <<"vi">>),
     <<"user", "-", "keys">>}

InitOptions ==
    /\ InitPipeline({JoinLines(lines) : lines \in TmuxLines(OptionBodies, MaxOptionLines)})
    /\ CommandIdle

\* _show_options: the command, then
\* convert_values(explode_complex(explode_arrays(parse_options_to_dict(...))))
ShowOptions(on, g, scope) ==
    /\ pc = "stdout"
    /\ call' = [op |-> "_show_options", on |-> on, g |-> g, scope |-> scope]
    /\ cmd' = <<"show-options">>
                \o Flag(g = PyBool(TRUE) \/ "_global" \in on, "-g")
                \o OptionScopeFlags(ResolveScope(scope, default_option_scope))
                \o Flag("include_inherited" \in on, "-A")
                \o Flag("include_hooks" \in on, "-H")
                \o Flag("ignore_errors" \in on, "-q")
    /\ warned' = IF g = PyBool(TRUE) THEN {"g"} ELSE {}
    /\ untyped' = parse_options_to_dict(stdout)
    /\ force_array' = FALSE
    /\ exploded' = explode_arrays(untyped', FALSE)
    /\ complex' = explode_complex(exploded')
    /\ LET converted == convert_values(PyDict(complex'))
       IN  /\ raised' = converted.raised
           /\ typed' = IF converted.raised = NoExc THEN converted.ret.val ELSE <<>>
           /\ pc' = IF converted.raised = NoExc THEN "typed" ELSE "raised"
    /\ UNCHANGED <<default_option_scope, default_hook_scope, tmux_lt_3_2, stderr,
                   tmux_options, heap, runs>>
    /\ UNCHANGED <<stdout, cls, record, array, op, value, result>>

Construct(c) ==
    /\ pc = "typed"
    /\ pc' = "record"
    /\ cls' = c
    /\ record' = __init__(c, typed)
    /\ UNCHANGED command
    /\ UNCHANGED <<stdout, untyped, force_array, exploded, complex, typed,
                   raised, array, op, value, result>>

\* record.name
GetAttr(name) ==
    /\ pc = "record"
    /\ pc' = "getattr"
    /\ value' = PyStr(<<name>>)
    /\ raised' = getattr(cls, record, name).raised
    /\ result' = getattr(cls, record, name).ret
    /\ UNCHANGED command
    /\ UNCHANGED <<pipeline, array, op>>

NextOptions ==
    \/ ShowOptions({}, PyBool(FALSE), DEFAULT_OPTION_SCOPE)
    \/ \E c \in {"ServerOptions", "SessionOptions", "WindowOptions", "PaneOptions",
                 "Options"} :
           Construct(c)
    \/ \E name \in {"backspace", "buffer_limit", "command_alias", "terminal_features",
                    "user_keys", "status_keys", "mouse", "visual_activity",
                    "window_style"} :
           GetAttr(name)

SpecOptions == InitOptions /\ [][NextOptions]_vars

----------------------------------------------------------------------------
(* The command state machine: an entity with its default scopes, the tmux  *)
(* it talks to and what that tmux will answer; one operation is called.    *)

\* the sets of at most MaxSwitches of the switches, passed as True
Switches(params) == {on \in SUBSET params : Cardinality(on) <= MaxSwitches}

ScopeArgs == OptionScope \cup {"None", DEFAULT_OPTION_SCOPE}

GArgs == {None, PyBool(TRUE), PyBool(FALSE)}

\* tmux will answer with nothing, with three lines of output, or with one
\* line of error
InitCommand ==
    /\ InitPipeline({<<>>,
                     JoinLines(<<Line(<<"status", "-", "keys">>, <<"vi">>),
                                 Line(<<"history", "-", "limit">>, <<"5", "0">>),
                                 Line(<<"session", "-", "renamed", "[", "0", "]">>,
                                      <<"display">>)>>)})
    /\ call = [op |-> "none"]
    /\ default_option_scope \in OptionScope \cup {"None"}
    /\ default_hook_scope \in OptionScope \cup {"None"}
    /\ tmux_lt_3_2 \in BOOLEAN
    /\ cmd = <<>>
    /\ stderr \in IF stdout = <<>>
                   THEN {<<>>, <<<<"unknown", " ", "option", ":", " ", "test">>>>}
                   ELSE {<<>>}
    /\ warned = {}
    /\ tmux_options = <<>>
    /\ heap = <<>>
    /\ runs = <<>>

\* the value as set_option sends it: on and off for True and False
OptionValue(val) ==
    IF val.type = "bool" THEN (IF val.val THEN <<"on">> ELSE <<"off">>) ELSE val.val

set_option(option, val, on, g, scope) ==
    /\ pc = "stdout"
    /\ pc' = "cmd"
    /\ call' = [op |-> "set_option", name |-> option, value |-> val,
                on |-> on, g |-> g, scope |-> scope]
    /\ cmd' = <<"set-option">>
                \o Flag("unset" \in on, "-u")
                \o Flag("unset_panes" \in on, "-U")
                \o Flag("_format" \in on, "-F")
                \o Flag("prevent_overwrite" \in on, "-o")
                \o Flag("ignore_errors" \in on, "-q")
                \o Flag("append" \in on, "-a")
                \o Flag(IF g # None THEN g.val ELSE "_global" \in on, "-g")
                \o OptionScopeFlags(ResolveScope(scope, default_option_scope))
                \o <<Join(option), Join(OptionValue(val))>>
    /\ warned' = IF g # None THEN {"g"} ELSE {}
    /\ raised' = CheckStderr(stderr)
    /\ UNCHANGED <<default_option_scope, default_hook_scope, tmux_lt_3_2, stderr,
                   tmux_options, heap, runs>>
    /\ UNCHANGED <<pipeline, array, op, value, result>>

unset_option(option, on, scope) ==
    /\ pc = "stdout"
    /\ pc' = "cmd"
    /\ call' = [op |-> "unset_option", name |-> option, on |-> on, scope |-> scope]
    /\ cmd' = <<"set-option">>
                \o (IF "unset_panes" \in on THEN <<"-U">> ELSE <<"-u">>)
                \o Flag("ignore_errors" \in on, "-q")
                \o Flag("_global" \in on, "-g")
                \o OptionScopeFlags(ResolveScope(scope, default_option_scope))
                \o <<Join(option)>>
    /\ warned' = {}
    /\ raised' = CheckStderr(stderr)
    /\ UNCHANGED <<default_option_scope, default_hook_scope, tmux_lt_3_2, stderr,
                   tmux_options, heap, runs>>
    /\ UNCHANGED <<pipeline, array, op, value, result>>

\* _show_option once the command has answered: the error of its stderr,
\* None for no output, else the option looked up in the converted output
ShowOptionReturn(text, err, option) ==
    LET converted ==
            convert_values(PyDict(explode_complex(
                explode_arrays(parse_options_to_dict(text), FALSE))))
    IN  IF CheckStderr(err) # NoExc
        THEN [raised |-> CheckStderr(err), ret |-> None]
        ELSE IF StdoutLines(text) = <<>>
        THEN [raised |-> NoExc, ret |-> None]
        ELSE IF converted.raised # NoExc
        THEN [raised |-> converted.raised, ret |-> None]
        ELSE [raised |-> NoExc, ret |-> DictGetOrNone(converted.ret.val, option)]

_show_option(option, on, g, scope) ==
    /\ pc = "stdout"
    /\ pc' = "cmd"
    /\ call' = [op |-> "_show_option", name |-> option, on |-> on, g |-> g,
                scope |-> scope]
    /\ cmd' = <<"show-options">>
                \o Flag(g = PyBool(TRUE) \/ "_global" \in on, "-g")
                \o OptionScopeFlags(ResolveScope(scope, default_option_scope))
                \o Flag("ignore_errors" \in on, "-q")
                \o Flag("include_inherited" \in on, "-A")
                \o Flag("include_hooks" \in on, "-H")
                \o <<Join(option)>>
    /\ warned' = IF g = PyBool(TRUE) THEN {"g"} ELSE {}
    /\ raised' = ShowOptionReturn(stdout, stderr, option).raised
    /\ result' = ShowOptionReturn(stdout, stderr, option).ret
    /\ UNCHANGED <<default_option_scope, default_hook_scope, tmux_lt_3_2, stderr,
                   tmux_options, heap, runs>>
    /\ UNCHANGED <<pipeline, array, op, value>>

set_hook(hook, val, on, g, scope) ==
    /\ pc = "stdout"
    /\ pc' = "cmd"
    /\ call' = [op |-> "set_hook", name |-> hook, value |-> val,
                on |-> on, g |-> g, scope |-> scope]
    /\ cmd' = <<"set-hook">>
                \o Flag("unset" \in on, "-u")
                \o Flag("run" \in on, "-R")
                \o Flag("_format" \in on, "-F")
                \o Flag("prevent_overwrite" \in on, "-o")
                \o Flag("ignore_errors" \in on, "-q")
                \o Flag("append" \in on, "-a")
                \o Flag("_global" \in on, "-g")
                \o HookScopeFlags(ResolveScope(scope, default_hook_scope), tmux_lt_3_2)
                \o <<Join(hook), Join(val.val)>>
    /\ warned' = IF HookScopeIgnored(ResolveScope(scope, default_hook_scope), tmux_lt_3_2)
                 THEN {"scope"} ELSE {}
    /\ raised' = CheckStderr(stderr)
    /\ UNCHANGED <<default_option_scope, default_hook_scope, tmux_lt_3_2, stderr,
                   tmux_options, heap, runs>>
    /\ UNCHANGED <<pipeline, array, op, value, result>>

unset_hook(hook, on, scope) ==
    /\ pc = "stdout"
    /\ pc' = "cmd"
    /\ call' = [op |-> "unset_hook", name |-> hook, on |-> on, scope |-> scope]
    /\ cmd' = <<"set-hook", "-u">>
                \o Flag("ignore_errors" \in on, "-q")
                \o Flag("_global" \in on, "-g")
                \o HookScopeFlags(ResolveScope(scope, default_hook_scope), tmux_lt_3_2)
                \o <<Join(hook)>>
    /\ warned' = IF HookScopeIgnored(ResolveScope(scope, default_hook_scope), tmux_lt_3_2)
                 THEN {"scope"} ELSE {}
    /\ raised' = CheckStderr(stderr)
    /\ UNCHANGED <<default_option_scope, default_hook_scope, tmux_lt_3_2, stderr,
                   tmux_options, heap, runs>>
    /\ UNCHANGED <<pipeline, array, op, value, result>>

show_hooks(on, scope) ==
    /\ pc = "stdout"
    /\ pc' = "cmd"
    /\ call' = [op |-> "show_hooks", on |-> on, scope |-> scope]
    /\ cmd' = <<"show-hooks">>
                \o Flag("_global" \in on, "-g")
                \o HookScopeFlags(ResolveScope(scope, default_hook_scope), tmux_lt_3_2)
                \o Flag("ignore_errors" \in on, "-q")
    /\ warned' = IF HookScopeIgnored(ResolveScope(scope, default_hook_scope), tmux_lt_3_2)
                 THEN {"scope"} ELSE {}
    /\ raised' = ShowHooksItems(StdoutLines(stdout), <<>>).raised
    /\ result' = ShowHooksItems(StdoutLines(stdout), <<>>).ret
    /\ UNCHANGED <<default_option_scope, default_hook_scope, tmux_lt_3_2, stderr,
                   tmux_options, heap, runs>>
    /\ UNCHANGED <<pipeline, array, op, value>>

\* the arguments are drawn once a call can be made
NextCommand ==
    \/ pc = "stdout" /\ \E val \in {PyBool(TRUE), PyBool(FALSE), PyStr(<<"vi">>)},
          g \in GArgs, scope \in ScopeArgs,
          on \in Switches({"unset", "unset_panes", "_format", "prevent_overwrite",
                           "ignore_errors", "append", "_global"}) :
           set_option(<<"status", "-", "keys">>, val, on, g, scope)
    \/ pc = "stdout" /\ \E scope \in ScopeArgs,
          on \in Switches({"unset_panes", "_global", "ignore_errors"}) :
           unset_option(<<"status", "-", "keys">>, on, scope)
    \/ pc = "stdout" /\ \E g \in GArgs, scope \in ScopeArgs,
          on \in Switches({"_global", "ignore_errors", "include_hooks",
                           "include_inherited"}) :
           ShowOptions(on, g, scope)
    \/ pc = "stdout" /\ \E option \in {<<"status", "-", "keys">>, <<"mouse">>},
          g \in GArgs, scope \in ScopeArgs,
          on \in Switches({"_global", "ignore_errors", "include_hooks",
                           "include_inherited"}) :
           _show_option(option, on, g, scope)
    \/ pc = "stdout" /\ \E g \in {None, PyBool(TRUE)}, scope \in ScopeArgs,
          on \in Switches({"_format", "unset", "run", "prevent_overwrite",
                           "ignore_errors", "append", "_global"}) :
           set_hook(<<"session", "-", "renamed">>, PyStr(<<"display">>), on, g, scope)
    \/ pc = "stdout" /\ \E scope \in ScopeArgs,
          on \in Switches({"_global", "ignore_errors"}) :
           unset_hook(<<"session", "-", "renamed">>, on, scope)
    \/ pc = "stdout" /\ \E scope \in ScopeArgs,
          on \in Switches({"_global", "ignore_errors"}) :
           show_hooks(on, scope)

SpecCommand == InitCommand /\ [][NextCommand]_vars

----------------------------------------------------------------------------
(* The operations on a self.cmd that stores: set-option keeps the value    *)
(* sent, set-option -u forgets it, and show-options prints the line of the *)
(* option, with its default when nothing is kept.                          *)

BufferLimit == <<"buffer", "-", "limit">>

\* the lines show-options prints for the option
ShowOptionsStdout(option) ==
    IF DictHas(tmux_options, option)
    THEN Line(option, DictGet(tmux_options, option).sent)
    ELSE IF option = BufferLimit THEN Line(option, <<"5", "0">>)
    ELSE <<>>

InitStore == InitPipeline({<<>>}) /\ CommandIdle

StoreSetOption(option, val) ==
    /\ pc \in {"stdout", "cmd"}
    /\ pc' = "cmd"
    /\ call' = [op |-> "set_option", name |-> option, value |-> val,
                on |-> {}, g |-> None, scope |-> DEFAULT_OPTION_SCOPE]
    /\ cmd' = <<"set-option">>
                \o OptionScopeFlags(ResolveScope(DEFAULT_OPTION_SCOPE, default_option_scope))
                \o <<Join(option), Join(OptionValue(val))>>
    /\ tmux_options' = DictSet(tmux_options, option,
                               [sent |-> OptionValue(val), given |-> val])
    /\ warned' = {}
    /\ raised' = CheckStderr(stderr)
    /\ result' = None
    /\ UNCHANGED <<default_option_scope, default_hook_scope, tmux_lt_3_2, stderr,
                   heap, runs>>
    /\ UNCHANGED <<pipeline, array, op, value>>

StoreUnsetOption(option) ==
    /\ pc \in {"stdout", "cmd"}
    /\ pc' = "cmd"
    /\ call' = [op |-> "unset_option", name |-> option, on |-> {},
                scope |-> DEFAULT_OPTION_SCOPE]
    /\ cmd' = <<"set-option", "-u">>
                \o OptionScopeFlags(ResolveScope(DEFAULT_OPTION_SCOPE, default_option_scope))
                \o <<Join(option)>>
    /\ tmux_options' = LET Kept(item) == item.k # option
                       IN  SelectSeq(tmux_options, Kept)
    /\ warned' = {}
    /\ raised' = CheckStderr(stderr)
    /\ result' = None
    /\ UNCHANGED <<default_option_scope, default_hook_scope, tmux_lt_3_2, stderr,
                   heap, runs>>
    /\ UNCHANGED <<pipeline, array, op, value>>

StoreShowOption(option) ==
    /\ pc \in {"stdout", "cmd"}
    /\ pc' = "cmd"
    /\ call' = [op |-> "_show_option", name |-> option, on |-> {}, g |-> None,
                scope |-> DEFAULT_OPTION_SCOPE]
    /\ cmd' = <<"show-options">>
                \o OptionScopeFlags(ResolveScope(DEFAULT_OPTION_SCOPE, default_option_scope))
                \o <<Join(option)>>
    /\ stdout' = ShowOptionsStdout(option)
    /\ warned' = {}
    /\ raised' = ShowOptionReturn(stdout', stderr, option).raised
    /\ result' = ShowOptionReturn(stdout', stderr, option).ret
    /\ UNCHANGED <<default_option_scope, default_hook_scope, tmux_lt_3_2, stderr,
                   tmux_options, heap, runs>>
    /\ UNCHANGED <<untyped, force_array, exploded, complex, typed, cls, record,
                   array, op, value>>

NextStore ==
    \/ \E option \in {BufferLimit, <<"@", "custom", "-", "option">>},
          val \in {PyBool(TRUE), PyBool(FALSE), PyStr(<<"1", "5", "0">>),
                   PyStr(<<"test">>), PyStr(<<"on">>), PyStr(<<"²">>)} :
           StoreSetOption(option, val)
    \/ \E option \in {BufferLimit, <<"@", "custom", "-", "option">>} :
           StoreUnsetOption(option)
    \/ \E option \in {BufferLimit, <<"@", "custom", "-", "option">>} :
           StoreShowOption(option)

SpecStore == InitStore /\ [][NextStore]_vars

----------------------------------------------------------------------------
(* Hooks: the record of the hooks, built of the lines show-hooks printed.  *)

\* the fields of Hooks, each a TmuxArray with default_factory=TmuxArray
HooksFields ==
    {"alert_activity", "alert_bell", "alert_silence", "client_active",
     "client_attached", "client_detached", "client_focus_in",
     "client_focus_out", "client_resized", "client_session_changed",
     "pane_died", "pane_exited", "pane_focus_in", "pane_focus_out",
     "pane_set_clipboard", "session_created", "session_closed",
     "session_renamed", "window_linked", "window_renamed",
     "window_resized", "window_unlinked", "client_detached_control",
     "client_session_changed_control", "config_error",
     "continue_control", "exit_control", "extended_output",
     "layout_change", "message_control", "output",
     "pane_mode_changed", "paste_buffer_changed",
     "paste_buffer_deleted", "pause_control",
     "session_changed_control", "session_renamed_control",
     "session_window_changed", "sessions_changed",
     "subscription_changed", "unlinked_window_add",
     "unlinked_window_close", "unlinked_window_renamed", "window_add",
     "window_close", "window_pane_changed", "window_renamed_control",
     "after_bind_key", "after_capture_pane", "after_copy_mode",
     "after_display_message", "after_display_panes",
     "after_kill_pane", "after_list_buffers", "after_list_clients",
     "after_list_keys", "after_list_panes", "after_list_sessions",
     "after_list_windows", "after_load_buffer", "after_lock_server",
     "after_new_session", "after_new_window", "after_paste_buffer",
     "after_pipe_pane", "after_queue", "after_refresh_client",
     "after_rename_session", "after_rename_window",
     "after_resize_pane", "after_resize_window", "after_save_buffer",
     "after_select_layout", "after_select_pane",
     "after_select_window", "after_send_keys", "after_set_buffer",
     "after_set_environment", "after_set_hook", "after_set_option",
     "after_show_environment", "after_show_messages",
     "after_show_options", "after_split_window"}

\* the loop of Hooks.from_stdout over the lines; output maps the hook
\* names met so far to their TmuxArray
RECURSIVE FromStdoutLines(_, _)
FromStdoutLines(lines, output) ==
    IF lines = <<>> THEN [raised |-> NoExc, ret |-> output]
    ELSE IF Head(lines) = <<>> \/ ~Contains(Head(lines), " ")
    THEN FromStdoutLines(Tail(lines), output)
    ELSE LET full_hook == SplitOnce(Head(lines), " ")[1]
             command_text == SplitOnce(Head(lines), " ")[2]
             match == MatchHookIndex(full_hook)
             hook == replace(lstrip(match.hook, {"%"}), "-", "_")
             created == IF DictHas(output, hook) THEN output
                        ELSE DictSet(output, hook, TmuxArrayOf(<<>>))
         IN  IF ~match.matched
             THEN [raised |-> "AssertionError", ret |-> output]
             \* int(None) when the name has no [index]
             ELSE IF ~match.has_index
             THEN [raised |-> "TypeError", ret |-> output]
             ELSE FromStdoutLines(
                      Tail(lines),
                      DictSet(created, hook,
                              WithItem(DictGet(created, hook),
                                       int(match.index).ret.val,
                                       PyStr(command_text))))

\* Hooks.from_stdout(value): cls(**output) takes the fields of Hooks only;
\* the fields not in output are empty TmuxArrays and are left out of self
from_stdout(lines) ==
    LET parsed == FromStdoutLines(lines, <<>>)
    IN  IF parsed.raised # NoExc THEN [raised |-> parsed.raised, self |-> <<>>]
        ELSE IF \E i \in DOMAIN parsed.ret : Join(parsed.ret[i].k) \notin HooksFields
        THEN [raised |-> "TypeError", self |-> <<>>]
        ELSE [raised |-> NoExc,
              self |-> [i \in DOMAIN parsed.ret |->
                            [k |-> Join(parsed.ret[i].k), v |-> parsed.ret[i].v]]]

\* lines of show-hooks: with an index, with the % of a control mode
\* notification in front, without an index, of no hook, without a command
InitHooks ==
    /\ InitPipeline(
           {JoinLines(lines) :
                lines \in SeqsUpTo(
                    {Line(<<"session", "-", "renamed", "[", "0", "]">>,
                          <<"display", " ", "ok">>),
                     Line(<<"session", "-", "renamed", "[", "2", "]">>,
                          <<"kill", "-", "server">>),
                     Line(<<"%", "session", "-", "renamed", "[", "0", "]">>,
                          <<"display", " ", "ok">>),
                     Line(<<"after", "-", "split", "-", "window", "[", "1", "]">>,
                          <<"display">>),
                     Line(<<"session", "-", "renamed">>, <<"display">>),
                     Line(<<"bogus", "[", "0", "]">>, <<"display">>),
                     <<"alert", "-", "bell">>,
                     <<>>},
                    MaxHookLines)})
    /\ CommandIdle

FromStdout ==
    /\ pc = "stdout"
    /\ pc' = "from_stdout"
    /\ cls' = "Hooks"
    /\ raised' = from_stdout(StdoutLines(stdout)).raised
    /\ record' = from_stdout(StdoutLines(stdout)).self
    /\ UNCHANGED command
    /\ UNCHANGED <<stdout, untyped, force_array, exploded, complex, typed,
                   array, op, value, result>>

SpecHooks == InitHooks /\ [][FromStdout]_vars

----------------------------------------------------------------------------
(* The containers of the results.  Every dict, TmuxArray, list and record  *)
(* a call creates is an object of the heap, and a value holds a reference  *)
(* to each container in it, so that two results can share a container.    *)
(* The id of an object is the number of the run that made it followed by   *)
(* the positions of the items that lead to it in the result of the run.    *)
(* A run is one call that returned: _show_options and the record made of   *)
(* its result, or Hooks.from_stdout (Hooks() when there is no line).       *)

\* Hooks(**output): the fields given, and for every other field the
\* TmuxArray its default_factory makes
HooksRecord(output) ==
    LET RECURSIVE Listed(_)
        Listed(set) ==
            IF set = {} THEN <<>>
            ELSE LET first == CHOOSE x \in set : TRUE
                 IN  <<first>> \o Listed(set \ {first})
        Field(name) ==
            [k |-> name,
             v |-> IF DictHas(output, name) THEN DictGet(output, name)
                   ELSE TmuxArrayOf(<<>>)]
        fields == Listed(HooksFields)
    IN  [type |-> "Hooks", val |-> [i \in DOMAIN fields |-> Field(fields[i])]]

\* the objects of every run under the ids of the first run
Store_shared(h, v, id) ==
    LET IsObject(x) == x.type \notin {"str", "int", "bool", "None"}
        RECURSIVE Paths(_)
        Paths(c) ==
            IF c.type = "list" THEN {<<>>}
            ELSE {<<>>} \cup UNION {{<<i>> \o p : p \in Paths(c.val[i].v)} :
                                       i \in {j \in DOMAIN c.val : IsObject(c.val[j].v)}}
        RECURSIVE At(_, _)
        At(c, p) == IF p = <<>> THEN c ELSE At(c.val[Head(p)].v, Tail(p))
        Object(c, at) ==
            IF c.type = "list" THEN c
            ELSE [type |-> c.type,
                  val |-> [i \in DOMAIN c.val |->
                               [k |-> c.val[i].k,
                                v |-> IF IsObject(c.val[i].v)
                                      THEN [type |-> "ref", val |-> at \o <<i>>]
                                      ELSE c.val[i].v]]]
    IN  [heap |-> h @@ [at \in {<<1>> \o p : p \in Paths(v)} |->
                            Object(At(v, Tail(at)), at)],
         ref |-> [type |-> "ref", val |-> <<1>>]]

\* the container as the call that makes it leaves it on the heap: {},
\* Default(), TmuxArray(), cls() and the default_factory of a field each
\* make a new object, with an id no object had; id is the id of v itself
Store(h, v, id) ==
    LET IsObject(x) == x.type \notin {"str", "int", "bool", "None"}
        RECURSIVE Paths(_)
        Paths(c) ==
            IF c.type = "list" THEN {<<>>}
            ELSE {<<>>} \cup UNION {{<<i>> \o p : p \in Paths(c.val[i].v)} :
                                       i \in {j \in DOMAIN c.val : IsObject(c.val[j].v)}}
        RECURSIVE At(_, _)
        At(c, p) == IF p = <<>> THEN c ELSE At(c.val[Head(p)].v, Tail(p))
        Object(c, at) ==
            IF c.type = "list" THEN c
            ELSE [type |-> c.type,
                  val |-> [i \in DOMAIN c.val |->
                               [k |-> c.val[i].k,
                                v |-> IF IsObject(c.val[i].v)
                                      THEN [type |-> "ref", val |-> at \o <<i>>]
                                      ELSE c.val[i].v]]]
    IN  [heap |-> h @@ [at \in {id \o p : p \in Paths(v)} |->
                            Object(At(v, SubSeq(at, Len(id) + 1, Len(at))), at)],
         ref |-> [type |-> "ref", val |-> id]]

\* the objects reached from a value
RECURSIVE Reach(_)
Reach(v) ==
    IF v.type # "ref" THEN {}
    ELSE {v.val} \cup (IF heap[v.val].type = "list" THEN {}
                       ELSE UNION {Reach(item.v) : item \in Range(heap[v.val].val)})

\* _show_options: the dict convert_values returns is the one explode_complex
\* made, with the containers explode_arrays and explode_complex made in it
ShowOptionsRun(text) ==
    /\ Len(runs) < MaxRuns
    /\ LET converted ==
               convert_values(PyDict(explode_complex(
                   explode_arrays(parse_options_to_dict(text), FALSE))))
           s == Store(heap, converted.ret, <<Len(runs) + 1>>)
       IN  /\ converted.raised = NoExc
           /\ heap' = s.heap
           /\ runs' = Append(runs, [op |-> "_show_options", input |-> text,
                                    roots |-> <<s.ref>>, touched |-> FALSE])
    /\ UNCHANGED <<call, default_option_scope, default_hook_scope, tmux_lt_3_2, cmd,
                   stderr, warned, tmux_options>>
    /\ UNCHANGED <<pipeline, array, op, raised, value, result, pc>>

\* ServerOptions(**options): a new record whose attributes are the values
\* of the dict themselves
ConstructRun(r) ==
    /\ r \in DOMAIN runs
    /\ runs[r].op = "_show_options"
    /\ heap' = heap @@ (<<r, 0>> :> [type |-> "ServerOptions",
                                     val |-> __init__("ServerOptions",
                                                      heap[runs[r].roots[1].val].val)])
    /\ runs' = [runs EXCEPT ![r].op = "ServerOptions",
                            ![r].roots = Append(@, [type |-> "ref", val |-> <<r, 0>>])]
    /\ UNCHANGED <<call, default_option_scope, default_hook_scope, tmux_lt_3_2, cmd,
                   stderr, warned, tmux_options>>
    /\ UNCHANGED <<pipeline, array, op, raised, value, result, pc>>

\* Hooks.from_stdout(lines)
FromStdoutRun(lines) ==
    /\ Len(runs) < MaxRuns
    /\ from_stdout(lines).raised = NoExc
    /\ LET s == Store(heap, HooksRecord(from_stdout(lines).self), <<Len(runs) + 1>>)
       IN  /\ heap' = s.heap
           /\ runs' = Append(runs, [op |-> "Hooks", input |-> lines,
                                    roots |-> <<s.ref>>, touched |-> FALSE])
    /\ UNCHANGED <<call, default_option_scope, default_hook_scope, tmux_lt_3_2, cmd,
                   stderr, warned, tmux_options>>
    /\ UNCHANGED <<pipeline, array, op, raised, value, result, pc>>

\* the caller changes one container of a result it holds: an item more
MutateRun(r) ==
    /\ r \in DOMAIN runs
    /\ \A other \in DOMAIN runs : ~runs[other].touched
    /\ \E id \in UNION {Reach(runs[r].roots[i]) : i \in DOMAIN runs[r].roots} :
           heap' = [heap EXCEPT
                       ![id].val =
                           Append(@, IF heap[id].type = "list" THEN PyStr(<<"changed">>)
                                     ELSE [k |-> IF heap[id].type = "dict" THEN <<"changed">>
                                                 ELSE IF heap[id].type = "TmuxArray" THEN 99
                                                 ELSE "changed",
                                           v |-> PyStr(<<"changed">>)])]
    /\ runs' = [runs EXCEPT ![r].touched = TRUE]
    /\ UNCHANGED <<call, default_option_scope, default_hook_scope, tmux_lt_3_2, cmd,
                   stderr, warned, tmux_options>>
    /\ UNCHANGED <<pipeline, array, op, raised, value, result, pc>>

NextFresh ==
    \/ \E text \in {JoinLines(<<Line(Indexed(CommandAlias, <<"0">>),
                                     <<"split", "-", "pane", "=", "split", "-", "window">>),
                                Line(<<"buffer", "-", "limit">>, <<"5", "0">>)>>),
                     JoinLines(<<Line(Indexed(TerminalOverrides, <<"0">>),
                                      <<"xterm", ":", "Tc">>),
                                 Line(Indexed(TerminalFeatures, <<"0">>),
                                      <<"xterm", "*", ":", "clipboard", ":", "ccolour">>),
                                 Line(Indexed(<<"user", "-", "keys">>, <<"0">>),
                                      <<"vi">>)>>)} :
           ShowOptionsRun(text)
    \/ \E r \in 1..MaxRuns : ConstructRun(r)
    \/ \E lines \in {<<>>,
                      <<Line(<<"session", "-", "renamed", "[", "0", "]">>,
                             <<"display", " ", "ok">>)>>} :
           FromStdoutRun(lines)
    \/ \E r \in 1..MaxRuns : MutateRun(r)

SpecFresh == InitStore /\ [][NextFresh]_vars

----------------------------------------------------------------------------
(* Claims about the records.                                               *)

\* the name a key has after hyphen normalisation and marker stripping
NormalisedName(key) == Join(rstrip(replace(key, "-", "_"), {"*"}))

\* C10: a record is only ever built of keys that name declared fields of
\* its class (a key that names none makes the construction raise), so no
\* record carries an attribute outside the declared fields.
C10_UnknownKeyRejected ==
    pc = "record" =>
        /\ \A key \in DictKeys(typed) : NormalisedName(key) \in Fields(cls)
        /\ DictKeys(record) \subseteq Fields(cls)


\* the fields the records declare as arrays
ArrayValuedFields == {"command_alias", "terminal_features", "terminal_overrides", "user_keys"}

\* the attribute read
AttributeRead == value.val[1]

\* C11: reading a declared field that no key of the construction input
\* names succeeds and gives the declared default: None for a scalar field,
\* an empty container for an array-valued field.
C11_AbsentFieldDefault ==
    (/\ pc = "getattr"
     /\ AttributeRead \in Fields(cls)
     /\ \A key \in DictKeys(typed) : NormalisedName(key) # AttributeRead) =>
        /\ raised = NoExc
        /\ IF AttributeRead \in ArrayValuedFields
           THEN IsDict(result) /\ result.val = <<>>
           ELSE result = None

\* a key ends in the inheritance marker
Marked(key) == endswith(key, "*")

\* C12: in a record of any of the five classes, a key with a trailing "*"
\* that names a declared field once the marker is stripped sets that field
\* to the value given.
C12_MarkerStripped ==
    pc = "record" =>
        \A key \in DictKeys(typed) :
            (Marked(key) /\ NormalisedName(key) \in Fields(cls)) =>
                /\ DictHas(record, NormalisedName(key))
                /\ DictGet(record, NormalisedName(key)) = DictGet(typed, key)

\* C13: a record built of the mapping _show_options returned holds, for
\* every key a-b-c of the mapping that names a declared field a_b_c, exactly
\* the value of the mapping (None for a key printed without a value); a
\* record of class Options holds the value of the key a-b-c* when the
\* mapping has no key a-b-c.
C13_FieldsEqualMapping ==
    pc = "record" =>
        \A key \in DictKeys(typed) :
            /\ (~Marked(key) /\ NormalisedName(key) \in Fields(cls)) =>
                   /\ DictHas(record, NormalisedName(key))
                   /\ DictGet(record, NormalisedName(key)) = DictGet(typed, key)
            /\ (/\ cls = "Options"
                /\ Marked(key)
                /\ NormalisedName(key) \in Fields(cls)
                /\ ~DictHas(typed, rstrip(key, {"*"}))) =>
                   /\ DictHas(record, NormalisedName(key))
                   /\ DictGet(record, NormalisedName(key)) = DictGet(typed, key)

\* an Options record of a number, of a key printed without a value and of
\* an inherited key
C13_Witness ==
    /\ pc = "record"
    /\ cls = "Options"
    /\ \E other \in {<<"user", "-", "keys">>, <<"visual", "-", "activity", "*">>} :
           /\ DictKeys(typed) = {<<"buffer", "-", "limit">>, other}
           /\ DictGet(record, NormalisedName(other))
                  = IF Marked(other) THEN PyBool(TRUE) ELSE None
    /\ DictGet(record, "buffer_limit") = PyInt(50)

----------------------------------------------------------------------------
(* The error state machine: one error line is handed to                    *)
(* handle_option_error.                                                    *)

\* an error line: up to MaxErrorPhrases phrases with a space between them
InitError ==
    /\ value \in
           {PyStr(replace(JoinLines(phrases), "\n", " ")) :
               phrases \in SeqsUpTo({<<"unknown", " ", "option">>,
                                     <<"invalid", " ", "option">>,
                                     <<"ambiguous", " ", "option">>,
                                     <<"unknown">>, <<"option">>, <<":", " ", "test">>},
                                    MaxErrorPhrases)}
    /\ result = None
    /\ raised = NoExc
    /\ pc = "start"
    /\ array = <<>>
    /\ op = IdleOp
    /\ PipelineIdle
    /\ CommandIdle

HandleOptionError ==
    /\ pc = "start"
    /\ pc' = "handle_option_error"
    /\ raised' = handle_option_error(value.val)
    /\ UNCHANGED <<value, result, array, op, pipeline, command>>

SpecError == InitError /\ [][HandleOptionError]_vars

\* C14: handle_option_error always raises: UnknownOption for a string with
\* "unknown option" in it, else InvalidOption for one with "invalid option",
\* else AmbiguousOption for one with "ambiguous option", else OptionError;
\* each of the four is an OptionError.
C14_HandleOptionError ==
    pc = "handle_option_error" =>
        /\ raised # NoExc
        /\ raised \in OptionErrors
        /\ InStr(<<"unknown", " ", "option">>, value.val) => raised = "UnknownOption"
        /\ (/\ ~InStr(<<"unknown", " ", "option">>, value.val)
            /\ InStr(<<"invalid", " ", "option">>, value.val)) => raised = "InvalidOption"
        /\ (/\ ~InStr(<<"unknown", " ", "option">>, value.val)
            /\ ~InStr(<<"invalid", " ", "option">>, value.val)
            /\ InStr(<<"ambiguous", " ", "option">>, value.val)) => raised = "AmbiguousOption"
        /\ (/\ ~InStr(<<"unknown", " ", "option">>, value.val)
            /\ ~InStr(<<"invalid", " ", "option">>, value.val)
            /\ ~InStr(<<"ambiguous", " ", "option">>, value.val)) => raised = "OptionError"

\* a line that names two kinds: the first test decides
C14_Witness ==
    /\ pc = "handle_option_error"
    /\ value.val = <<"ambiguous", " ", "option", " ", "invalid", " ", "option", " ", ":", " ", "test">>
    /\ raised = "InvalidOption"

----------------------------------------------------------------------------
(* Claims about the commands.                                              *)

InCmd(flag) == \E i \in DOMAIN cmd : cmd[i] = flag

HookOps == {"set_hook", "unset_hook", "show_hooks"}

OptionOps == {"set_option", "unset_option", "_show_options", "_show_option"}

\* the scope the call is made for
Resolved ==
    IF call.scope # DEFAULT_OPTION_SCOPE THEN call.scope
    ELSE IF call.op \in HookOps THEN default_hook_scope
    ELSE default_option_scope

\* positions of the command line by kind: the flags of the switches, the
\* flag of the scope (Session scope may stand as an empty argument)
SwitchFlags == {"-F", "-u", "-U", "-o", "-q", "-a", "-g", "-H", "-A", "-R"}

ScopeFlags == {"", "-s", "-w", "-p"}

SwitchPositions == {i \in DOMAIN cmd : cmd[i] \in SwitchFlags}

ScopePositions == {i \in DOMAIN cmd : cmd[i] \in ScopeFlags}

IsScopeFlag(arg) == arg \in ScopeFlags

\* the scope flags of the command line, in order
ScopeFlagsOfCmd == SelectSeq(cmd, IsScopeFlag)

\* C15 as stated: with ignore_errors=True set_option, unset_option and
\* _show_option add -q and raise no option error whatever stderr holds;
\* without the switch a non-empty stderr raises.
C15_IgnoreErrorsSuppresses ==
    call.op \in {"set_option", "unset_option", "_show_option"} =>
        /\ "ignore_errors" \in call.on => InCmd("-q") /\ raised \notin OptionErrors
        /\ ("ignore_errors" \notin call.on /\ stderr # <<>>) => raised \in OptionErrors

\* C15: set_option, unset_option and _show_option add -q exactly when
\* ignore_errors is True, and with or without the switch they raise the
\* option error of the first line of stderr exactly when stderr is not
\* empty: what -q suppresses is left to tmux.
C15_QuietFlagOnly ==
    call.op \in {"set_option", "unset_option", "_show_option"} =>
        /\ InCmd("-q") <=> "ignore_errors" \in call.on
        /\ raised \in OptionErrors <=> stderr # <<>>
        /\ stderr # <<>> => raised = handle_option_error(stderr[1])

\* ignore_errors=True, tmux printed an error all the same, and it is raised
C15_Witness ==
    /\ call.op = "set_option"
    /\ "ignore_errors" \in call.on
    /\ InCmd("-q")
    /\ stderr # <<>>
    /\ raised = "UnknownOption"

\* C16 as stated: in every operation a Pane or Window scope below tmux 3.2
\* emits neither -p nor -w and warns, at 3.2 or above its flag is emitted,
\* and the flag of a Server or Session scope is always emitted.
C16_GateEveryOperation ==
    (call.op # "none" /\ Resolved # "None") =>
        LET flag == IF call.op \in HookOps THEN HOOK_SCOPE_FLAG_MAP[Resolved]
                    ELSE OPTION_SCOPE_FLAG_MAP[Resolved]
        IN  IF Resolved \in {"Pane", "Window"} /\ tmux_lt_3_2
            THEN ~InCmd("-p") /\ ~InCmd("-w") /\ "scope" \in warned
            ELSE ScopeFlagsOfCmd = <<flag>>

\* C16: the version gate is in the hook operations only.  set-hook,
\* unset-hook and show-hooks with a Pane or Window scope below tmux 3.2 emit
\* neither -p nor -w and warn; at 3.2 or above, and for Server and Session
\* scope at any version, they emit the flag of the scope and do not warn.
\* set-option, unset-option and show-options emit the flag of the scope at
\* every version and never warn about the scope.
C16_GateHookOperations ==
    (call.op # "none" /\ Resolved # "None") =>
        IF call.op \in HookOps
        THEN IF Resolved \in {"Pane", "Window"} /\ tmux_lt_3_2
             THEN ~InCmd("-p") /\ ~InCmd("-w") /\ "scope" \in warned
             ELSE /\ ScopeFlagsOfCmd = <<HOOK_SCOPE_FLAG_MAP[Resolved]>>
                  /\ "scope" \notin warned
        ELSE /\ ScopeFlagsOfCmd = <<OPTION_SCOPE_FLAG_MAP[Resolved]>>
             /\ "scope" \notin warned

\* a hook set for a pane below tmux 3.2: no -p, and a warning
C16_Witness ==
    /\ call.op = "set_hook"
    /\ call.scope = "Pane"
    /\ tmux_lt_3_2
    /\ ~InCmd("-p")
    /\ warned = {"scope"}

DeclaredOrder == <<"-F", "-u", "-U", "-o", "-q", "-a", "-g", "-H", "-A", "-R">>

DeclaredRank(flag) == CHOOSE r \in DOMAIN DeclaredOrder : DeclaredOrder[r] = flag

\* C18: in every command line the flags of the switches stand in the order
\* the switches are declared, and the scope flag stands after all of them
\* and before the option or hook name.
C18_FlagOrder ==
    call.op # "none" =>
        /\ \A i \in SwitchPositions, j \in SwitchPositions :
               i < j => DeclaredRank(cmd[i]) < DeclaredRank(cmd[j])
        /\ \A i \in SwitchPositions, j \in ScopePositions : i < j
        /\ \A j \in ScopePositions :
               \A i \in DOMAIN cmd : i > j => cmd[i] \notin SwitchFlags

\* C19 as stated: option commands take the scope flags in the order the
\* scopes are listed: none for Server, -s for Session, -w for Window,
\* -p for Pane.
C19_ScopeFlagsAsListed ==
    (call.op \in OptionOps /\ Resolved # "None") =>
        ScopeFlagsOfCmd =
            <<CASE Resolved = "Server" -> ""
                [] Resolved = "Session" -> "-s"
                [] Resolved = "Window" -> "-w"
                [] Resolved = "Pane" -> "-p">>

\* C19: option commands take -s for Server scope, an empty flag for
\* Session scope, -w for Window scope and -p for Pane scope.
C19_ScopeFlags ==
    (call.op \in OptionOps /\ Resolved # "None") =>
        ScopeFlagsOfCmd =
            <<CASE Resolved = "Server" -> "-s"
                [] Resolved = "Session" -> ""
                [] Resolved = "Window" -> "-w"
                [] Resolved = "Pane" -> "-p">>

\* an option set at Server scope goes out with -s
C19_Witness ==
    /\ call.op = "set_option"
    /\ call.scope = "Server"
    /\ cmd[Len(cmd) - 2] = "-s"

----------------------------------------------------------------------------
(* Claims about Hooks.                                                     *)

\* the line without the % in front of its hook name
Unmarked(line) == IF line # <<>> /\ Head(line) = "%" THEN Tail(line) ELSE line

UnmarkedLines == [i \in DOMAIN StdoutLines(stdout) |-> Unmarked(StdoutLines(stdout)[i])]

\* C20: from_stdout takes a line whose hook name has a % in front as it
\* takes the line without the %: it does not raise, and the command is
\* stored under the field of the hook.
C20_MarkerStripped ==
    (/\ pc = "from_stdout"
     /\ UnmarkedLines # StdoutLines(stdout)
     /\ from_stdout(UnmarkedLines).raised = NoExc) =>
        /\ raised = NoExc
        /\ record = from_stdout(UnmarkedLines).self

\* the hook line is "name command" or "name[digits] command" for a field
\* of Hooks, or is a line from_stdout passes over
HookLine(line) ==
    \/ line = <<>>
    \/ ~Contains(line, " ")
    \/ LET full_hook == SplitOnce(line, " ")[1]
           match == MatchHookIndex(full_hook)
       IN  /\ match.matched
           /\ Join(replace(match.hook, "-", "_")) \in HooksFields
           /\ \/ full_hook = match.hook
              \/ full_hook = match.hook \o <<"[">> \o match.index \o <<"]">>

\* the lines that come after line i and write the same place of the record
Overwritten(lines, i) ==
    \E j \in (i + 1)..Len(lines) :
        /\ Contains(lines[j], " ")
        /\ SplitOnce(lines[j], " ")[1] = SplitOnce(lines[i], " ")[1]

\* C21: from_stdout does not raise on hook lines; "hook[N] cmd" stores cmd
\* at index N of the field of the hook, "hook cmd" appends cmd to the field
\* of the hook, and the hooks that no line names are empty.
C21_FromStdoutGroups ==
    (pc = "from_stdout" /\ \A i \in DOMAIN StdoutLines(stdout) :
                               HookLine(StdoutLines(stdout)[i])) =>
        /\ raised = NoExc
        /\ \A i \in DOMAIN StdoutLines(stdout) :
               LET line == StdoutLines(stdout)[i]
                   match == MatchHookIndex(SplitOnce(line, " ")[1])
                   name == Join(replace(match.hook, "-", "_"))
               IN  (Contains(line, " ") /\ line # <<>>) =>
                       /\ DictHas(record, name)
                       /\ IF match.has_index
                          THEN Overwritten(StdoutLines(stdout), i)
                               \/ (/\ DictHas(DictGet(record, name).val,
                                              int(match.index).ret.val)
                                   /\ DictGet(DictGet(record, name).val,
                                              int(match.index).ret.val)
                                          = PyStr(SplitOnce(line, " ")[2]))
                          ELSE \E k \in DictKeys(DictGet(record, name).val) :
                                   DictGet(DictGet(record, name).val, k)
                                       = PyStr(SplitOnce(line, " ")[2])
        /\ \A name \in DictKeys(record) :
               \E i \in DOMAIN StdoutLines(stdout) :
                   /\ Contains(StdoutLines(stdout)[i], " ")
                   /\ name = Join(replace(
                                 MatchHookIndex(SplitOnce(StdoutLines(stdout)[i], " ")[1]).hook,
                                 "-", "_"))

----------------------------------------------------------------------------
(* Claims about the operations and what they return.                       *)

\* C22: show_hooks returns a mapping that has, for every line
\* "name command" of the output whose name is a hook, an entry under the
\* name of the hook that holds the command.
C22_ShowHooksMapping ==
    call.op = "show_hooks" =>
        /\ raised = NoExc
        /\ IsDict(result)
        /\ \A i \in DOMAIN StdoutLines(stdout) :
               LET line == StdoutLines(stdout)[i]
                   full_hook == SplitOnce(line, " ")[1]
                   match == MatchHookIndex(full_hook)
               IN  (/\ Contains(line, " ")
                    /\ match.matched
                    /\ Join(replace(match.hook, "-", "_")) \in HooksFields) =>
                       \E key \in {full_hook, match.hook} :
                           /\ DictHas(result.val, key)
                           /\ \/ DictGet(result.val, key) = PyStr(SplitOnce(line, " ")[2])
                              \/ /\ IsTmuxArray(DictGet(result.val, key))
                                 /\ \E k \in DictKeys(DictGet(result.val, key).val) :
                                        DictGet(DictGet(result.val, key).val, k)
                                            = PyStr(SplitOnce(line, " ")[2])

\* the key has a "[" and is not name[digits] with a name of [\w-]
Malformed(key) ==
    /\ Contains(key, "[")
    /\ ~(/\ HasIndexSuffix(key)
         /\ BaseName(key) # <<>>
         /\ WordPrefixLen(BaseName(key)) = Len(BaseName(key)))

\* C24: explode_arrays keeps every key with a "[" that is not name[digits]
\* as a scalar under the key itself with its value, and the other keys of
\* the input are in the output under their names.
C24_NoKeyLost ==
    pc \in {"typed", "raised", "record", "getattr"} =>
        \A key \in DictKeys(untyped) :
            IF Malformed(key)
            THEN /\ DictHas(exploded, key)
                 /\ DictGet(exploded, key) = DictGet(untyped, key)
            ELSE DictHas(exploded, BaseName(key))

----------------------------------------------------------------------------
(* Claims about what the parsers do with input they cannot parse.          *)

\* shlex.split does not give the two words of the line
NotTwoWords(line) ==
    \/ shlex_split(line).raised # NoExc
    \/ Len(shlex_split(line).ret) # 2

\* C23: parse_options_to_dict raises for no text; every line with a word
\* before its first space gives an entry under that word, a line without
\* one is skipped, and the output has no other key; a line that is not two
\* shell words (a quote left open, more than two words, nothing after the
\* space) gives the rest of the line after its first space as the value.
C23_ParseNeverRaises ==
    pc # "stdout" =>
        /\ raised = NoExc
        /\ pc = "parsed"
        /\ DictKeys(untyped)
               = {strip(FirstWord(line)) : line \in Range(TextLines(stdout))} \ {<<>>}
        /\ \A j \in DOMAIN TextLines(stdout) :
               LET line == TextLines(stdout)[j]
               IN  (/\ Contains(line, " ")
                    /\ strip(FirstWord(line)) # <<>>
                    /\ NotTwoWords(line)
                    /\ LastWithKey(TextLines(stdout), j)) =>
                       DictGet(untyped, FirstWord(line)) = PyStr(AfterFirstWord(line))

\* a line with a quote left open, then a line of three words: both give
\* their entry
C23_Witness ==
    /\ pc = "parsed"
    /\ raised = NoExc
    /\ stdout = JoinLines(<<Line(<<"status", "-", "keys">>, <<"\"", "vi">>),
                            Line(<<"escape", "-", "time">>,
                                 <<"bg", "=", "red", " ", "bold">>)>>)
    /\ DictGet(untyped, <<"status", "-", "keys">>) = PyStr(<<"\"", "vi">>)
    /\ DictGet(untyped, <<"escape", "-", "time">>)
           = PyStr(<<"bg", "=", "red", " ", "bold">>)

\* the element of the option called key can be parsed: a string with its
\* separator, a spec of terminal-overrides with at most one "="
Parsable(key, item) ==
    /\ IsStr(item)
    /\ key = TerminalFeatures => Contains(item.val, ":")
    /\ key = TerminalOverrides =>
           /\ Contains(item.val, ":")
           /\ Count(After(item.val, ":"), "=") <= 1
    /\ key = CommandAlias => Contains(item.val, "=")

\* the array without the elements that cannot be parsed
ParsableOnly(key, val) ==
    LET Test(e) == Parsable(key, e.v)
    IN  TmuxArrayOf(SelectSeq(val.val, Test))

----------------------------------------------------------------------------
(* Claims about the containers of explode_arrays.                          *)

\* C29 as stated: the container made for the keys name[N] is a plain
\* mapping when name is terminal-features and a TmuxArray for any other
\* name.
C29_ContainerAsListed ==
    pc = "exploded" =>
        \A key \in DictKeys(untyped) :
            HasIndexSuffix(key) =>
                DictGet(exploded, BaseName(key)).type
                    = IF BaseName(key) = TerminalFeatures THEN "dict" ELSE "TmuxArray"

\* C29: the container made for the keys name[N] is a TmuxArray for every
\* name, terminal-features included; it holds the value of each key at its
\* index.
C29_ContainerTmuxArray ==
    pc = "exploded" =>
        \A key \in DictKeys(untyped) :
            HasIndexSuffix(key) =>
                /\ DictHas(exploded, BaseName(key))
                /\ IsTmuxArray(DictGet(exploded, BaseName(key)))
                /\ \E e \in Range(DictGet(exploded, BaseName(key)).val) :
                       e.v = DictGet(untyped, key)

\* terminal-features[0] and terminal-overrides[0], both in a TmuxArray
C29_Witness ==
    /\ pc = "exploded"
    /\ DictHas(untyped, Indexed(TerminalFeatures, <<"0">>))
    /\ DictHas(untyped, Indexed(TerminalOverrides, <<"0">>))
    /\ IsTmuxArray(DictGet(exploded, TerminalFeatures))
    /\ IsTmuxArray(DictGet(exploded, TerminalOverrides))

----------------------------------------------------------------------------
(* Claims about the commands and the errors of every operation.            *)

\* C28: every operation that finds lines on the stderr of its command
\* raises the error handle_option_error gives for the first of them.
C28_StderrRaises ==
    (call.op # "none" /\ stderr # <<>>) => raised = handle_option_error(stderr[1])

GOps == {"set_option", "_show_options", "_show_option"}

\* C30: set_option, _show_options and _show_option put -g in the command
\* exactly when g or _global is passed true, once, and warn of the
\* deprecated g whenever it is passed true.
C30_GlobalFlag ==
    call.op \in GOps =>
        /\ Count(cmd, "-g")
               = IF call.g = PyBool(TRUE) \/ "_global" \in call.on THEN 1 ELSE 0
        /\ call.g = PyBool(TRUE) => "g" \in warned

----------------------------------------------------------------------------
(* Claims about the operations on a self.cmd that stores.                  *)

\* the typed form of a value given to set_option: True and False as given
\* (on and off, as tmux spells them, are True and False too), the integer
\* of a string of digits, any other string as it is
TypedForm(given) == IF given.type = "bool" THEN given ELSE Coerced(given)

\* C27: _show_option(o) returns the typed form of the value of the last
\* set_option(o, v) for as long as o is not set again or unset, and the
\* default of o (50 for buffer-limit, None for a user option) when o was
\* never set or was unset last.
C27_ShowAfterSet ==
    (pc = "cmd" /\ call.op = "_show_option") =>
        /\ raised = NoExc
        /\ result = IF DictHas(tmux_options, call.name)
                    THEN TypedForm(DictGet(tmux_options, call.name).given)
                    ELSE IF call.name = BufferLimit THEN PyInt(50) ELSE None

----------------------------------------------------------------------------
(* Claims about the containers of the results.                             *)

\* the value read through its references
RECURSIVE Deref(_)
Deref(v) ==
    IF v.type # "ref" THEN v
    ELSE IF heap[v.val].type = "list" THEN heap[v.val]
    ELSE [type |-> heap[v.val].type,
          val |-> [i \in DOMAIN heap[v.val].val |->
                       [k |-> heap[v.val].val[i].k,
                        v |-> Deref(heap[v.val].val[i].v)]]]

Containers(r) == UNION {Reach(runs[r].roots[i]) : i \in DOMAIN runs[r].roots}

\* the results of the run when it is the only one: the dict of
\* _show_options and the record made of it, or the Hooks record
Alone(run) ==
    IF run.op = "Hooks" THEN <<HooksRecord(from_stdout(run.input).self)>>
    ELSE LET options == convert_values(PyDict(explode_complex(
                            explode_arrays(parse_options_to_dict(run.input), FALSE)))).ret
         IN  <<options,
               [type |-> "ServerOptions",
                val |-> __init__("ServerOptions", options.val)]>>

====
